---- MODULE Spec2Model ----
(***************************************************************************)
(* Signet remote signer: the authorization pipeline behind the NIP-46      *)
(* wire.  The module models                                                *)
(*   - the ACL evaluator and its TTL cache        (daemon/lib/acl.ts)      *)
(*   - the operations that mutate KeyUsers and SigningConditions           *)
(*   - the NIP-46 backend's request handling      (Nip46Backend)           *)
(*   - the pending-request approval paths         (requests routes, repo)  *)
(*   - the one-shot connection-token store        (ConnectionTokenService) *)
(* Every `await` of the source is a step boundary: a step is the           *)
(* synchronous code that runs after the previous await resolved, followed  *)
(* by the database call it then issues.                                    *)
(***************************************************************************)
EXTENDS Integers, Sequences, FiniteSets, Bags, TLC

VARIABLES
    now,            \* wall clock, in ms (Date.now())
    keyUsers,       \* KeyUser table: a set of rows
    nextKeyUserId,  \* KeyUser autoincrement
    conditions,     \* SigningCondition table: a bag of rows (duplicates are rows)
    aclCache,       \* acl.ts aclCache: entries in Map insertion order
    evals,          \* in-flight isRequestPermitted calls
    op,             \* the in-flight operation that mutates KeyUsers / conditions
    nEvals,         \* evaluations started so far
    nOps,           \* operations started so far
    revokeReturned, \* history: (key, pubkey) pairs whose revoke call has returned
    revokeFresh,    \* history: of those, the ones not evaluated since
    blockReturned,  \* history: pairs whose blockAllRequests call has returned
    allKeys,        \* KeyService config.allKeys: key name -> stored record
    configKeys,     \* key names in the on-disk config file
    activeKeys,     \* KeyService activeKeys: names of the unlocked keys
    adminSecret,    \* Nip46Backend.adminSecret (config)
    handling,       \* in-flight Nip46Backend.handleEvent calls
    published,      \* events handed to pool.publish that went out, in order
    requests,       \* Request table: id -> row
    batches,        \* in-flight POST /requests/batch handlers
    deciders,       \* in-flight single approve / deny calls
    emitted,        \* event bus: the events emitted, in order
    tokens,         \* ConnectionToken table: token -> row
    redeems,        \* in-flight validateAndRedeemToken calls
    policyToken,    \* Token table: the row of one policy token
    applies,        \* in-flight applyToken calls
    http,           \* the HTTP layer's error reply to one request
    relayService,   \* RelayService fields, the relays of the NDK pool, armed timers
    cacheUse,       \* history: the last call on the ACL cache, its keys by last use
    keyOp,          \* the KeyService call in flight, or the last one made
    manager,        \* SubscriptionManager fields and its armed timers
    subscriptions,  \* SubscriptionManager.subscriptions: id -> managed subscription
    poolSubs,       \* RelayPool: the open subscriptions
    restart,        \* the doRestartSubscriptions call in its 500 ms pause
    backends,       \* the Nip46Backend of each key
    registered,     \* history: ids subscribed and not unsubscribed since
    sleepWake,      \* history: the last heartbeat that saw a time jump
    wire            \* one NIP-46 exchange with the content of its events

aclVars == <<now, keyUsers, nextKeyUserId, conditions, aclCache, evals, op,
             nEvals, nOps, revokeReturned, revokeFresh, blockReturned, allKeys, configKeys, activeKeys>>

backendVars == <<adminSecret, handling, published>>

requestVars == <<requests, batches, deciders, emitted>>

policyVars == <<policyToken, applies>>

\* the token stores, and the HTTP layer's reply
\* the relay service, and the use of the ACL cache
sideVars == <<relayService, cacheUse>>

tokenVars == <<tokens, redeems, policyVars, http, sideVars>>

managerVars == <<manager, subscriptions, poolSubs, restart, backends,
                 registered, sleepWake>>

\* the key vault's calls, the subscription manager
extVars == <<keyOp, managerVars, wire>>

\* what the ACL evaluator and the operations on KeyUsers leave alone
nonAclVars == <<backendVars, requestVars, tokenVars, extVars>>

vars == <<aclVars, backendVars, requestVars, tokenVars, extVars>>

----------------------------------------------------------------------------
(* Bounds of the model *)

MaxTicks == 2
MaxEvals == 3
MaxOps == 2

----------------------------------------------------------------------------
(* Program constants *)

ACL_CACHE_TTL_MS == 30000
ACL_CACHE_MAX_SIZE == 1000
REQUEST_EXPIRY_MS == 60000

\* One clock step: the cache TTL, so that an entry is seen at ages 0, TTL
\* (still valid: the test is `>`) and 2*TTL (expired).
TickMs == ACL_CACHE_TTL_MS + 0

NoTime == 0 - 1         \* a NULL DATETIME
NoKind == 0 - 1         \* extractKind's `undefined`

Keys == {"k1"}
Pubkeys == {"p1"}
Pairs == Keys \X Pubkeys

TrustLevels == {"paranoid", "reasonable", "full"}
DEFAULT_TRUST_LEVEL == "reasonable"

SAFE_KINDS == {1, 6, 7, 16, 1111, 30023, 30024, 1808, 9735, 10000, 10001,
               30000, 30001, 24242}

SENSITIVE_KINDS == {0, 3, 4, 5, 10002, 22242, 24133, 13194, 23194, 23195}

\* isKindSafe without the SAFE_KINDS test: unknown kinds pass
isKindSafeUnknownPasses(kind) == kind \notin SENSITIVE_KINDS

isKindSafe(kind) ==
    IF kind \in SENSITIVE_KINDS THEN FALSE ELSE kind \in SAFE_KINDS

----------------------------------------------------------------------------
(* Strings that the code converts: a string is a sequence of characters.   *)

DigitChar(d) ==
    CASE d = 0 -> "0" [] d = 1 -> "1" [] d = 2 -> "2" [] d = 3 -> "3"
      [] d = 4 -> "4" [] d = 5 -> "5" [] d = 6 -> "6" [] d = 7 -> "7"
      [] d = 8 -> "8" [] d = 9 -> "9"

RECURSIVE NumberToString(_)
\* Number.prototype.toString() of a non-negative integer
NumberToString(n) ==
    IF n < 10 THEN <<DigitChar(n)>>
    ELSE NumberToString(n \div 10) \o <<DigitChar(n % 10)>>

KindAll == <<"a", "l", "l">>        \* the string 'all'
KindNull == <<"NULL">>              \* a NULL kind column (no string equals it)

\* A request payload as extractKind sees it.
\*   form "undefined": no payload; "badjson": a string that does not parse;
\*   "event": an object (or its JSON); hasKind: its `kind` is a number.
NoPayload == [form |-> "undefined", hasKind |-> FALSE, kind |-> 0]
BadPayload == [form |-> "badjson", hasKind |-> FALSE, kind |-> 0]
EventPayload(k) == [form |-> "event", hasKind |-> TRUE, kind |-> k]
KindlessPayload == [form |-> "event", hasKind |-> FALSE, kind |-> 0]

extractKind(payload) ==
    IF payload.form = "undefined" THEN NoKind
    ELSE IF payload.form = "badjson" THEN NoKind
    ELSE IF payload.hasKind THEN payload.kind
    ELSE NoKind

\* a `where` of the method alone, whatever the method
buildConditionQueryMethodOnly(method, payload) ==
    [method |-> method, anyKind |-> TRUE, kinds |-> {}]

\* The Prisma `where` built for the method/kind lookup: the method, and for
\* sign_event the set of kind strings the row's kind must be in.
buildConditionQuery(method, payload) ==
    IF method # "sign_event"
    THEN [method |-> method, anyKind |-> TRUE, kinds |-> {}]
    ELSE LET kind == extractKind(payload)
         IN [method |-> method, anyKind |-> FALSE,
             kinds |-> {KindAll} \cup
                       (IF kind # NoKind THEN {NumberToString(kind)} ELSE {})]

shouldAutoApproveByTrustLevel(trustLevel, method, payload) ==
    IF trustLevel = "paranoid" THEN FALSE
    ELSE IF trustLevel = "full" THEN TRUE
    ELSE CASE method = "connect" -> TRUE
           [] method = "ping" -> TRUE
           [] method \in {"encrypt", "decrypt"} -> FALSE
           [] method = "sign_event" ->
                LET kind == extractKind(payload)
                IN IF kind = NoKind THEN FALSE ELSE isKindSafe(kind)
           [] OTHER -> FALSE

----------------------------------------------------------------------------
(* The database *)

KeyUserOf(keyName, userPubkey) ==
    {ku \in keyUsers : ku.keyName = keyName /\ ku.userPubkey = userPubkey}

KeyUserById(id) == {ku \in keyUsers : ku.id = id}

NewKeyUser(id, keyName, userPubkey, trustLevel) ==
    [id |-> id, keyName |-> keyName, userPubkey |-> userPubkey,
     trustLevel |-> trustLevel, revokedAt |-> NoTime, lastUsedAt |-> NoTime,
     suspendedAt |-> NoTime, suspendUntil |-> NoTime]

\* the row with the fields of a Prisma `update` / `data` object set
ApplyUpdate(ku, data) ==
    [f \in DOMAIN ku |-> IF f \in DOMAIN data THEN data[f] ELSE ku[f]]

\* prisma.keyUser.upsert on unique_key_user: the row that exists gets the
\* `update` object, otherwise a row is created.  Result: the table, the
\* row's id.
UpsertKeyUser(keyName, userPubkey, createTrust, update) ==
    LET found == KeyUserOf(keyName, userPubkey)
    IN IF found # {}
       THEN LET ku == CHOOSE x \in found : TRUE
            IN [keyUsers |-> (keyUsers \ {ku}) \cup {ApplyUpdate(ku, update)},
                id |-> ku.id, nextId |-> nextKeyUserId]
       ELSE [keyUsers |-> keyUsers \cup
                          {NewKeyUser(nextKeyUserId, keyName, userPubkey, createTrust)},
             id |-> nextKeyUserId, nextId |-> nextKeyUserId + 1]

Cond(keyUserId, method, kind, allowed) ==
    [keyUserId |-> keyUserId, method |-> method, kind |-> kind, allowed |-> allowed]

\* prisma.signingCondition.create
CreateCondition(conds, c) == conds (+) SetToBag({c})

RECURSIVE CreateConditions(_, _)
\* prisma.signingCondition.createMany
CreateConditions(conds, rows) ==
    IF rows = <<>> THEN conds
    ELSE CreateConditions(CreateCondition(conds, Head(rows)), Tail(rows))

\* rows matching a `where` of buildConditionQuery's shape
MatchingConditions(keyUserId, query) ==
    {c \in BagToSet(conditions) :
        /\ c.keyUserId = keyUserId
        /\ c.method = query.method
        /\ (query.anyKind \/ c.kind \in query.kinds)}

ExplicitDenyRows(keyUserId) ==
    {c \in BagToSet(conditions) :
        c.keyUserId = keyUserId /\ c.method = "*" /\ c.allowed = FALSE}

----------------------------------------------------------------------------
(* The ACL cache (a JS Map: insertion-ordered) *)

CacheHas(cache, keyName, remotePubkey) ==
    \E i \in 1..Len(cache) :
        cache[i].keyName = keyName /\ cache[i].remotePubkey = remotePubkey

CacheGet(cache, keyName, remotePubkey) ==
    cache[CHOOSE i \in 1..Len(cache) :
            cache[i].keyName = keyName /\ cache[i].remotePubkey = remotePubkey]

CacheDelete(cache, keyName, remotePubkey) ==
    SelectSeq(cache, LAMBDA e : ~(e.keyName = keyName /\ e.remotePubkey = remotePubkey))

\* getCachedEntry: the entry, unless absent or older than the TTL (then it
\* is deleted).  Result: whether an entry is returned, and the cache.
getCachedEntry(cache, keyName, remotePubkey) ==
    IF ~CacheHas(cache, keyName, remotePubkey)
    THEN [hit |-> FALSE, cache |-> cache]
    ELSE IF now - CacheGet(cache, keyName, remotePubkey).timestamp > ACL_CACHE_TTL_MS
         THEN [hit |-> FALSE, cache |-> CacheDelete(cache, keyName, remotePubkey)]
         ELSE [hit |-> TRUE, cache |-> cache]

\* setCachedEntry with ACL_CACHE_MAX_SIZE = maxSize
setCachedEntryOf(maxSize, cache, keyName, remotePubkey, keyUser, hasExplicitDeny) ==
    LET trimmed == IF Len(cache) >= maxSize THEN Tail(cache) ELSE cache
        entry == [keyName |-> keyName, remotePubkey |-> remotePubkey,
                  keyUser |-> keyUser, hasExplicitDeny |-> hasExplicitDeny,
                  timestamp |-> now]
    IN IF CacheHas(trimmed, keyName, remotePubkey)
       THEN [i \in 1..Len(trimmed) |->
                IF trimmed[i].keyName = keyName /\ trimmed[i].remotePubkey = remotePubkey
                THEN entry ELSE trimmed[i]]
       ELSE Append(trimmed, entry)

setCachedEntry(cache, keyName, remotePubkey, keyUser, hasExplicitDeny) ==
    setCachedEntryOf(ACL_CACHE_MAX_SIZE, cache, keyName, remotePubkey, keyUser,
                     hasExplicitDeny)

invalidateAclCache(cache, keyName, remotePubkey) ==
    CacheDelete(cache, keyName, remotePubkey)

invalidateAclCacheForKey(cache, keyName) ==
    SelectSeq(cache, LAMBDA e : e.keyName # keyName)

(* The calls on the cache, one by one, with a cache of CacheCapacity entries *)
(* in place of ACL_CACHE_MAX_SIZE and the keys of CacheKeys                  *)

CacheCapacity == 3
CacheKeys == {"k1", "k2"} \X {"p1", "p2"}

NoCacheUse == [op |-> "", key |-> <<"", "">>, order |-> <<>>]

\* history: key is used now
UseKey(order, key) == Append(SelectSeq(order, LAMBDA k : k # key), key)

\* history: the keys that are still in the cache
Present(order, cache) == SelectSeq(order, LAMBDA k : CacheHas(cache, k[1], k[2]))

cacheFrame ==
    <<keyUsers, nextKeyUserId, conditions, evals, op, nEvals, nOps, revokeReturned,
      revokeFresh, blockReturned, allKeys, configKeys, activeKeys>>

\* getCachedEntry(keyName, remotePubkey)
CacheLookup(key) ==
    LET g == getCachedEntry(aclCache, key[1], key[2])
    IN /\ aclCache' = g.cache
       /\ cacheUse' = [op |-> "get", key |-> key,
                       order |-> Present(IF g.hit THEN UseKey(cacheUse.order, key)
                                         ELSE cacheUse.order, g.cache)]
       /\ UNCHANGED <<now, cacheFrame>>

\* setCachedEntry(keyName, remotePubkey, {keyUser, hasExplicitDeny})
CacheStore(key, hasExplicitDeny) ==
    /\ aclCache' = setCachedEntryOf(CacheCapacity, aclCache, key[1], key[2],
                                    [id |-> 1, revokedAt |-> NoTime,
                                     trustLevel |-> DEFAULT_TRUST_LEVEL],
                                    hasExplicitDeny)
    /\ cacheUse' = [op |-> "set", key |-> key,
                    order |-> Present(UseKey(cacheUse.order, key), aclCache')]
    /\ UNCHANGED <<now, cacheFrame>>

\* invalidateAclCache(keyName, remotePubkey)
CacheInvalidate(key) ==
    /\ aclCache' = invalidateAclCache(aclCache, key[1], key[2])
    /\ cacheUse' = [op |-> "delete", key |-> key,
                    order |-> Present(cacheUse.order, aclCache')]
    /\ UNCHANGED <<now, cacheFrame>>

----------------------------------------------------------------------------
(* isRequestPermitted, one call per slot of `evals` *)

EvalSlots == {1}

IdleEval ==
    [pc |-> "idle", keyName |-> "", remotePubkey |-> "", method |-> "",
     payload |-> NoPayload, fromCache |-> FALSE, dbKeyUser |-> {},
     explicitDeny |-> FALSE, keyUserId |-> 0, trustLevel |-> "",
     condition |-> {}, result |-> "", lastUsedIssued |-> FALSE,
     afterRevoke |-> FALSE, firstAfterRevoke |-> FALSE,
     afterBlock |-> FALSE, suspendedAtStart |-> FALSE]

\* The outcomes of prisma findFirst over the matching rows: no row, or one
\* of them (the query states no order).
FindFirst(rows) == IF rows = {} THEN {{}} ELSE {{c} : c \in rows}

\* A KeyUser row whose suspension is in force at time t.
SuspensionActive(ku, t) ==
    ku.suspendedAt # NoTime /\ (ku.suspendUntil = NoTime \/ ku.suspendUntil > t)

EvalDone(ev, result) == [ev EXCEPT !.pc = "done", !.result = result]

\* isRequestPermitted up to its first await: the cache lookup; on a hit the
\* cached revoked/deny checks and the method/kind lookup, on a miss the
\* KeyUser lookup.
StartEval(e, keyName, remotePubkey, method, payload) ==
    /\ evals[e].pc = "idle"
    /\ nEvals < MaxEvals
    /\ nEvals' = nEvals + 1
    /\ LET g == getCachedEntry(aclCache, keyName, remotePubkey)
           pair == <<keyName, remotePubkey>>
           ev0 == [IdleEval EXCEPT
                     !.keyName = keyName, !.remotePubkey = remotePubkey,
                     !.method = method, !.payload = payload,
                     !.afterRevoke = (pair \in revokeReturned),
                     !.firstAfterRevoke = (pair \in revokeFresh),
                     !.afterBlock = (pair \in blockReturned),
                     !.suspendedAtStart =
                        (\E ku \in KeyUserOf(keyName, remotePubkey) :
                            SuspensionActive(ku, now))]
       IN /\ aclCache' = g.cache
          /\ revokeFresh' = revokeFresh \ {pair}
          /\ IF g.hit
             THEN LET cached == CacheGet(aclCache, keyName, remotePubkey)
                  IN IF cached.keyUser.revokedAt # NoTime
                     THEN evals' = [evals EXCEPT ![e] =
                                EvalDone([ev0 EXCEPT !.fromCache = TRUE], "Denied")]
                     ELSE IF cached.hasExplicitDeny
                     THEN evals' = [evals EXCEPT ![e] =
                                EvalDone([ev0 EXCEPT !.fromCache = TRUE], "Denied")]
                     ELSE \E found \in FindFirst(MatchingConditions(
                                cached.keyUser.id, buildConditionQuery(method, payload))) :
                            evals' = [evals EXCEPT ![e] =
                                [ev0 EXCEPT !.pc = "findCondition",
                                            !.fromCache = TRUE,
                                            !.keyUserId = cached.keyUser.id,
                                            !.trustLevel = cached.keyUser.trustLevel,
                                            !.condition = found]]
             ELSE evals' = [evals EXCEPT ![e] =
                        [ev0 EXCEPT !.pc = "findKeyUser",
                                    !.dbKeyUser = KeyUserOf(keyName, remotePubkey)]]
    /\ UNCHANGED <<now, keyUsers, nextKeyUserId, conditions, op, nOps,
                   revokeReturned, blockReturned, allKeys, configKeys, activeKeys>>

\* after `await prisma.keyUser.findUnique`: missing -> undefined, revoked ->
\* false, otherwise the global-deny lookup is issued
EvalFindKeyUser(e) ==
    /\ evals[e].pc = "findKeyUser"
    /\ LET ev == evals[e]
       IN IF ev.dbKeyUser = {}
          THEN evals' = [evals EXCEPT ![e] = EvalDone(ev, "Undecided")]
          ELSE LET keyUser == CHOOSE ku \in ev.dbKeyUser : TRUE
               IN IF keyUser.revokedAt # NoTime
                  THEN evals' = [evals EXCEPT ![e] = EvalDone(ev, "Denied")]
                  ELSE evals' = [evals EXCEPT ![e] =
                          [ev EXCEPT !.pc = "findDeny",
                                     !.explicitDeny = (ExplicitDenyRows(keyUser.id) # {})]]
    /\ UNCHANGED <<now, keyUsers, nextKeyUserId, conditions, aclCache, op,
                   nEvals, nOps, revokeReturned, revokeFresh, blockReturned, allKeys, configKeys, activeKeys>>

\* after `await prisma.signingCondition.findFirst` (global deny): the entry
\* is cached, a deny returns false, otherwise the method/kind lookup is issued
EvalFindDeny(e) ==
    /\ evals[e].pc = "findDeny"
    /\ LET ev == evals[e]
           keyUser == CHOOSE ku \in ev.dbKeyUser : TRUE
           summary == [id |-> keyUser.id, revokedAt |-> keyUser.revokedAt,
                       trustLevel |-> keyUser.trustLevel]
       IN /\ aclCache' = setCachedEntry(aclCache, ev.keyName, ev.remotePubkey,
                                        summary, ev.explicitDeny)
          /\ IF ev.explicitDeny
             THEN evals' = [evals EXCEPT ![e] = EvalDone(ev, "Denied")]
             ELSE \E found \in FindFirst(MatchingConditions(
                        keyUser.id, buildConditionQuery(ev.method, ev.payload))) :
                    evals' = [evals EXCEPT ![e] =
                        [ev EXCEPT !.pc = "findCondition",
                                   !.keyUserId = keyUser.id,
                                   !.trustLevel = keyUser.trustLevel,
                                   !.condition = found]]
    /\ UNCHANGED <<now, keyUsers, nextKeyUserId, conditions, op, nEvals, nOps,
                   revokeReturned, revokeFresh, blockReturned,
                   allKeys, configKeys, activeKeys>>

\* prisma.keyUser.update({where: {id}, data: {lastUsedAt: new Date()}}),
\* fire and forget: a missing row is an ignored error
TouchLastUsed(kus, id) ==
    {IF ku.id = id THEN [ku EXCEPT !.lastUsedAt = now] ELSE ku : ku \in kus}

\* the decision of isRequestPermitted once the method/kind row is known
Decide(ev) ==
    IF ev.condition # {}
    THEN [result |-> IF (CHOOSE c \in ev.condition : TRUE).allowed
                     THEN "Permitted" ELSE "Denied",
          touch |-> FALSE]
    ELSE IF shouldAutoApproveByTrustLevel(ev.trustLevel, ev.method, ev.payload)
         THEN [result |-> "Permitted", touch |-> TRUE]
         ELSE [result |-> "Undecided", touch |-> FALSE]

\* after `await prisma.signingCondition.findFirst` (method/kind)
EvalFindCondition(e) ==
    /\ evals[e].pc = "findCondition"
    /\ LET ev == evals[e]
           d == Decide(ev)
       IN /\ evals' = [evals EXCEPT ![e] =
                [EvalDone(ev, d.result) EXCEPT !.lastUsedIssued = d.touch]]
          /\ keyUsers' = IF d.touch THEN TouchLastUsed(keyUsers, ev.keyUserId)
                         ELSE keyUsers
    /\ UNCHANGED <<now, nextKeyUserId, conditions, aclCache, op, nEvals, nOps,
                   revokeReturned, revokeFresh, blockReturned,
                   allKeys, configKeys, activeKeys>>

\* the caller takes the result
EvalReturn(e) ==
    /\ evals[e].pc = "done"
    /\ evals' = [evals EXCEPT ![e] = IdleEval]
    /\ UNCHANGED <<now, keyUsers, nextKeyUserId, conditions, aclCache, op,
                   nEvals, nOps, revokeReturned, revokeFresh, blockReturned, allKeys, configKeys, activeKeys>>

----------------------------------------------------------------------------
(* Operations that mutate KeyUsers and SigningConditions.  One is in       *)
(* flight at a time, in `op`; evaluations interleave with its steps.       *)

IdleOp ==
    [fn |-> "idle", pc |-> "", keyName |-> "", remotePubkey |-> "",
     method |-> "", kind |-> KindNull, trustLevel |-> "", keyUserId |-> 0,
     found |-> FALSE, config |-> {}]

OpIdle == op.fn = "idle"

BeginOp == OpIdle /\ nOps < MaxOps /\ nOps' = nOps + 1

\* `update: {}`
EmptyUpdate == <<>>

\* The methods and scopes the control plane grants
GrantMethods == {"sign_event", "encrypt", "ping"}
ScopeKinds == {KindNull, KindAll, NumberToString(1)}

(* permitAllRequests(remotePubkey, keyName, method, description, scope) *)
CallPermitAllRequests(remotePubkey, keyName, method, kind) ==
    /\ BeginOp
    /\ LET u == UpsertKeyUser(keyName, remotePubkey, DEFAULT_TRUST_LEVEL, EmptyUpdate)
       IN /\ keyUsers' = u.keyUsers
          /\ nextKeyUserId' = u.nextId
          /\ op' = [IdleOp EXCEPT !.fn = "permitAllRequests", !.pc = "create",
                                  !.keyName = keyName, !.remotePubkey = remotePubkey,
                                  !.method = method, !.kind = kind,
                                  !.keyUserId = u.id]
    /\ UNCHANGED <<now, conditions, aclCache, evals, nEvals, revokeReturned,
                   revokeFresh, blockReturned, allKeys, configKeys,
                   activeKeys>>

StepPermitAllRequests ==
    /\ op.fn = "permitAllRequests"
    /\ \/ /\ op.pc = "create"
          /\ conditions' = CreateCondition(conditions,
                                Cond(op.keyUserId, op.method, op.kind, TRUE))
          /\ op' = [op EXCEPT !.pc = "invalidate"]
          /\ UNCHANGED aclCache
       \/ /\ op.pc = "invalidate"
          /\ aclCache' = invalidateAclCache(aclCache, op.keyName, op.remotePubkey)
          /\ op' = IdleOp
          /\ UNCHANGED conditions
    /\ UNCHANGED <<now, keyUsers, nextKeyUserId, evals, nEvals, nOps,
                   revokeReturned, revokeFresh, blockReturned,
                   allKeys, configKeys, activeKeys>>

(* blockAllRequests(remotePubkey, keyName) *)
CallBlockAllRequests(remotePubkey, keyName) ==
    /\ BeginOp
    /\ LET u == UpsertKeyUser(keyName, remotePubkey, DEFAULT_TRUST_LEVEL, EmptyUpdate)
       IN /\ keyUsers' = u.keyUsers
          /\ nextKeyUserId' = u.nextId
          /\ op' = [IdleOp EXCEPT !.fn = "blockAllRequests", !.pc = "create",
                                  !.keyName = keyName, !.remotePubkey = remotePubkey,
                                  !.keyUserId = u.id]
    /\ UNCHANGED <<now, conditions, aclCache, evals, nEvals, revokeReturned,
                   revokeFresh, blockReturned, allKeys, configKeys,
                   activeKeys>>

\* what blockAllRequests does to the cache once the deny row is written
BlockInvalidate(cache, keyName, remotePubkey) ==
    invalidateAclCache(cache, keyName, remotePubkey)

StepBlockAllRequests ==
    /\ op.fn = "blockAllRequests"
    /\ \/ /\ op.pc = "create"
          /\ conditions' = CreateCondition(conditions,
                                Cond(op.keyUserId, "*", KindNull, FALSE))
          /\ op' = [op EXCEPT !.pc = "invalidate"]
          /\ UNCHANGED <<aclCache, blockReturned>>
       \/ /\ op.pc = "invalidate"
          /\ aclCache' = BlockInvalidate(aclCache, op.keyName, op.remotePubkey)
          /\ op' = IdleOp
          /\ blockReturned' = blockReturned \cup {<<op.keyName, op.remotePubkey>>}
          /\ UNCHANGED conditions
    /\ UNCHANGED <<now, keyUsers, nextKeyUserId, evals, nEvals, nOps,
                   revokeReturned, revokeFresh, allKeys, configKeys, activeKeys>>

(* grantPermissionsByTrustLevel(remotePubkey, keyName, trustLevel, description) *)
GrantUpsert(keyName, remotePubkey, trustLevel) ==
    UpsertKeyUser(keyName, remotePubkey, trustLevel, [trustLevel |-> trustLevel])

FullTrustRows(keyUserId) ==
    << Cond(keyUserId, "encrypt", KindNull, TRUE),
       Cond(keyUserId, "decrypt", KindNull, TRUE),
       Cond(keyUserId, "sign_event", KindAll, TRUE) >>

CallGrantPermissionsByTrustLevel(remotePubkey, keyName, trustLevel) ==
    /\ BeginOp
    /\ LET u == GrantUpsert(keyName, remotePubkey, trustLevel)
       IN /\ keyUsers' = u.keyUsers
          /\ nextKeyUserId' = u.nextId
          /\ op' = [IdleOp EXCEPT !.fn = "grantPermissionsByTrustLevel",
                                  !.pc = "createConnect",
                                  !.keyName = keyName, !.remotePubkey = remotePubkey,
                                  !.trustLevel = trustLevel, !.keyUserId = u.id]
    /\ UNCHANGED <<now, conditions, aclCache, evals, nEvals, revokeReturned,
                   revokeFresh, blockReturned, allKeys, configKeys,
                   activeKeys>>

StepGrantPermissionsByTrustLevel ==
    /\ op.fn = "grantPermissionsByTrustLevel"
    /\ \/ /\ op.pc = "createConnect"
          /\ conditions' = CreateCondition(conditions,
                                Cond(op.keyUserId, "connect", KindNull, TRUE))
          /\ op' = [op EXCEPT !.pc = IF op.trustLevel = "full"
                                     THEN "createMany" ELSE "invalidate"]
          /\ UNCHANGED aclCache
       \/ /\ op.pc = "createMany"
          /\ conditions' = CreateConditions(conditions, FullTrustRows(op.keyUserId))
          /\ op' = [op EXCEPT !.pc = "invalidate"]
          /\ UNCHANGED aclCache
       \/ /\ op.pc = "invalidate"
          /\ aclCache' = invalidateAclCache(aclCache, op.keyName, op.remotePubkey)
          /\ op' = IdleOp
          /\ UNCHANGED conditions
    /\ UNCHANGED <<now, keyUsers, nextKeyUserId, evals, nEvals, nOps,
                   revokeReturned, revokeFresh, blockReturned,
                   allKeys, configKeys, activeKeys>>

(* updateTrustLevel(keyUserId, trustLevel) *)
\* prisma.keyUser.update throws when no row has the id: the call ends there
CallUpdateTrustLevel(keyUserId, trustLevel) ==
    /\ BeginOp
    /\ IF KeyUserById(keyUserId) = {}
       THEN /\ op' = IdleOp
            /\ UNCHANGED keyUsers
       ELSE LET ku == CHOOSE x \in KeyUserById(keyUserId) : TRUE
            IN /\ keyUsers' = (keyUsers \ {ku}) \cup
                              {[ku EXCEPT !.trustLevel = trustLevel]}
               /\ op' = [IdleOp EXCEPT !.fn = "updateTrustLevel",
                            !.pc = IF trustLevel = "full" THEN "findEncrypt"
                                   ELSE "invalidate",
                            !.keyName = ku.keyName, !.remotePubkey = ku.userPubkey,
                            !.trustLevel = trustLevel, !.keyUserId = keyUserId]
    /\ UNCHANGED <<now, nextKeyUserId, conditions, aclCache, evals, nEvals,
                   revokeReturned, revokeFresh, blockReturned,
                   allKeys, configKeys, activeKeys>>

StepUpdateTrustLevel ==
    /\ op.fn = "updateTrustLevel"
    /\ \/ /\ op.pc = "findEncrypt"
          /\ op' = [op EXCEPT !.pc =
                        IF \E c \in BagToSet(conditions) :
                                c.keyUserId = op.keyUserId /\ c.method = "encrypt"
                                /\ c.allowed = TRUE
                        THEN "invalidate" ELSE "createMany"]
          /\ UNCHANGED <<conditions, aclCache>>
       \/ /\ op.pc = "createMany"
          /\ conditions' = CreateConditions(conditions,
                                << Cond(op.keyUserId, "encrypt", KindNull, TRUE),
                                   Cond(op.keyUserId, "decrypt", KindNull, TRUE) >>)
          /\ op' = [op EXCEPT !.pc = "invalidate"]
          /\ UNCHANGED aclCache
       \/ /\ op.pc = "invalidate"
          /\ aclCache' = invalidateAclCache(aclCache, op.keyName, op.remotePubkey)
          /\ op' = IdleOp
          /\ UNCHANGED conditions
    /\ UNCHANGED <<now, keyUsers, nextKeyUserId, evals, nEvals, nOps,
                   revokeReturned, revokeFresh, blockReturned,
                   allKeys, configKeys, activeKeys>>

(* Nip46Backend.createKeyUserForConnect(remotePubkey), for the backend of keyName *)
\* an upsert whose `update` also writes the trust level of `create`
ConnectUpsertSetsTrust(keyName, remotePubkey) ==
    UpsertKeyUser(keyName, remotePubkey, DEFAULT_TRUST_LEVEL,
                  [lastUsedAt |-> now, trustLevel |-> DEFAULT_TRUST_LEVEL])

ConnectUpsert(keyName, remotePubkey) ==
    UpsertKeyUser(keyName, remotePubkey, DEFAULT_TRUST_LEVEL, [lastUsedAt |-> now])

CallCreateKeyUserForConnect(remotePubkey, keyName) ==
    /\ BeginOp
    /\ LET u == ConnectUpsert(keyName, remotePubkey)
       IN /\ keyUsers' = u.keyUsers
          /\ nextKeyUserId' = u.nextId
          /\ op' = [IdleOp EXCEPT !.fn = "createKeyUserForConnect",
                                  !.pc = "findConnect",
                                  !.keyName = keyName, !.remotePubkey = remotePubkey,
                                  !.keyUserId = u.id]
    /\ UNCHANGED <<now, conditions, aclCache, evals, nEvals, revokeReturned,
                   revokeFresh, blockReturned, allKeys, configKeys,
                   activeKeys>>

StepCreateKeyUserForConnect ==
    /\ op.fn = "createKeyUserForConnect"
    /\ \/ /\ op.pc = "findConnect"
          /\ op' = [op EXCEPT !.pc =
                        IF \E c \in BagToSet(conditions) :
                                c.keyUserId = op.keyUserId /\ c.method = "connect"
                        THEN "getApp" ELSE "create"]
          /\ UNCHANGED conditions
       \/ /\ op.pc = "create"
          /\ conditions' = CreateCondition(conditions,
                                Cond(op.keyUserId, "connect", KindNull, TRUE))
          /\ op' = [op EXCEPT !.pc = "getApp"]
       \/ /\ op.pc = "getApp"      \* appService.getAppById, emitAppConnected
          /\ op' = IdleOp
          /\ UNCHANGED conditions
    /\ UNCHANGED <<now, keyUsers, nextKeyUserId, aclCache, evals, nEvals, nOps,
                   revokeReturned, revokeFresh, blockReturned,
                   allKeys, configKeys, activeKeys>>

(* AppService.revokeApp(appId): appRepository.findById, appRepository.revoke, *)
(* then the cache entry of the app is invalidated                            *)
CallRevokeApp(appId) ==
    /\ BeginOp
    /\ op' = [IdleOp EXCEPT !.fn = "revokeApp", !.pc = "revoke",
                            !.keyUserId = appId,
                            !.found = (KeyUserById(appId) # {})]
    /\ UNCHANGED <<now, keyUsers, nextKeyUserId, conditions, aclCache, evals,
                   nEvals, revokeReturned, revokeFresh, blockReturned, allKeys, configKeys, activeKeys>>

\* appRepository.revoke(id): revokedAt := now
RevokeRow(kus, id) ==
    {IF ku.id = id THEN [ku EXCEPT !.revokedAt = now] ELSE ku : ku \in kus}

StepRevokeApp ==
    /\ op.fn = "revokeApp"
    /\ \/ /\ op.pc = "revoke"
          /\ IF ~op.found
             THEN /\ op' = IdleOp           \* throws 'App not found'
                  /\ UNCHANGED keyUsers
             ELSE LET ku == CHOOSE x \in KeyUserById(op.keyUserId) : TRUE
                  IN /\ keyUsers' = RevokeRow(keyUsers, op.keyUserId)
                     /\ op' = [op EXCEPT !.pc = "invalidate",
                                         !.keyName = ku.keyName,
                                         !.remotePubkey = ku.userPubkey]
          /\ UNCHANGED <<aclCache, revokeReturned, revokeFresh>>
       \/ /\ op.pc = "invalidate"
          /\ aclCache' = invalidateAclCache(aclCache, op.keyName, op.remotePubkey)
          /\ op' = IdleOp
          /\ revokeReturned' = revokeReturned \cup {<<op.keyName, op.remotePubkey>>}
          /\ revokeFresh' = revokeFresh \cup {<<op.keyName, op.remotePubkey>>}
          /\ UNCHANGED keyUsers
    /\ UNCHANGED <<now, nextKeyUserId, conditions, evals, nEvals, nOps,
                   blockReturned, allKeys, configKeys, activeKeys>>

(* KeyService.deleteKey(keyName, passphrase) *)
Passphrases == {"none", "good", "bad"}

\* keyring decryptSecret: succeeds with the key's passphrase only
DecryptSecretOk(passphrase) == passphrase = "good"

\* appRepository.revokeByKeyName: revokes the key's non-revoked KeyUsers
RevokeByKeyName(kus, keyName) ==
    {IF ku.keyName = keyName /\ ku.revokedAt = NoTime
     THEN [ku EXCEPT !.revokedAt = now] ELSE ku : ku \in kus}

\* deleteKey's check with the passphrase not verified
DeleteKeyCheckUnverified(keyName, passphrase) ==
    IF keyName \notin DOMAIN allKeys THEN "Key not found"
    ELSE IF allKeys[keyName].encrypted /\ passphrase = "none"
         THEN "Passphrase required to delete encrypted key"
    ELSE "ok"

\* the error deleteKey throws before it touches anything, or "ok"
DeleteKeyCheck(keyName, passphrase) ==
    IF keyName \notin DOMAIN allKeys THEN "Key not found"
    ELSE IF allKeys[keyName].encrypted
         THEN IF passphrase = "none"
              THEN "Passphrase required to delete encrypted key"
              ELSE IF ~DecryptSecretOk(passphrase) THEN "Invalid passphrase"
              ELSE "ok"
         ELSE "ok"

CallDeleteKey(keyName, passphrase) ==
    /\ BeginOp
    /\ IF DeleteKeyCheck(keyName, passphrase) # "ok"
       THEN /\ op' = IdleOp
            /\ UNCHANGED keyUsers
       ELSE /\ keyUsers' = RevokeByKeyName(keyUsers, keyName)
            /\ op' = [IdleOp EXCEPT !.fn = "deleteKey", !.pc = "loadConfig",
                                    !.keyName = keyName]
    /\ UNCHANGED <<now, nextKeyUserId, conditions, aclCache, evals, nEvals,
                   revokeReturned, revokeFresh, blockReturned,
                   allKeys, configKeys, activeKeys>>

\* what deleteKey does to the ACL cache after the mass revoke: nothing
DeleteKeyCache(cache, keyName) == cache

StepDeleteKey ==
    /\ op.fn = "deleteKey"
    /\ \/ /\ op.pc = "loadConfig"
          /\ op' = [op EXCEPT !.pc = "saveConfig", !.config = configKeys]
          /\ UNCHANGED <<configKeys, allKeys, activeKeys, aclCache,
                         revokeReturned, revokeFresh>>
       \/ /\ op.pc = "saveConfig"
          /\ configKeys' = op.config \ {op.keyName}
          /\ op' = [op EXCEPT !.pc = "finish"]
          /\ UNCHANGED <<allKeys, activeKeys, aclCache, revokeReturned, revokeFresh>>
       \/ /\ op.pc = "finish"
          /\ activeKeys' = activeKeys \ {op.keyName}
          /\ allKeys' = [k \in DOMAIN allKeys \ {op.keyName} |-> allKeys[k]]
          /\ aclCache' = DeleteKeyCache(aclCache, op.keyName)
          /\ op' = IdleOp
          /\ LET revoked == {<<ku.keyName, ku.userPubkey>> :
                                ku \in {x \in keyUsers : x.keyName = op.keyName
                                                         /\ x.revokedAt # NoTime}}
             IN /\ revokeReturned' = revokeReturned \cup revoked
                /\ revokeFresh' = revokeFresh \cup revoked
          /\ UNCHANGED configKeys
    /\ UNCHANGED <<now, keyUsers, nextKeyUserId, conditions, evals, nEvals,
                   nOps, blockReturned>>

(* AppService.suspendApp(appId, until) and unsuspendApp(appId) *)
SuspendApp(appId, indefinite) ==
    /\ BeginOp
    /\ KeyUserById(appId) # {}
    /\ keyUsers' = {IF ku.id = appId
                    THEN [ku EXCEPT !.suspendedAt = now,
                                    !.suspendUntil = IF indefinite THEN NoTime
                                                     ELSE now + TickMs]
                    ELSE ku : ku \in keyUsers}
    /\ UNCHANGED <<now, nextKeyUserId, conditions, aclCache, evals, op, nEvals,
                   revokeReturned, revokeFresh, blockReturned,
                   allKeys, configKeys, activeKeys>>

\* unsuspendApp only clears what suspendApp set: it is not counted in nOps
UnsuspendApp(appId) ==
    /\ OpIdle
    /\ UNCHANGED nOps
    /\ \E ku \in KeyUserById(appId) : ku.suspendedAt # NoTime
    /\ keyUsers' = {IF ku.id = appId
                    THEN [ku EXCEPT !.suspendedAt = NoTime, !.suspendUntil = NoTime]
                    ELSE ku : ku \in keyUsers}
    /\ UNCHANGED <<now, nextKeyUserId, conditions, aclCache, evals, op, nEvals,
                   revokeReturned, revokeFresh, blockReturned,
                   allKeys, configKeys, activeKeys>>

\* time passes: at most MaxTicks steps of `ms`
Advance(ms) ==
    /\ now + ms <= MaxTicks * ms
    /\ now' = now + ms
    /\ UNCHANGED <<keyUsers, nextKeyUserId, conditions, aclCache, evals, op,
                   nEvals, nOps, revokeReturned, revokeFresh, blockReturned, allKeys, configKeys, activeKeys>>

----------------------------------------------------------------------------
(* Nip46Backend (subscription-manager.ts): the backend of key BackendKey.  *)
(* Every `await` of handleEvent is a step.                                  *)

MaxHandlers == 1
MaxReplies == 2      \* responses published before the backend takes no more events
Handlers == 1..MaxHandlers
BackendKey == "k1"

\* A string parameter that may be missing (undefined)
Secret(chars) == [present |-> TRUE, chars |-> chars]
NoSecret == [present |-> FALSE, chars |-> <<>>]

\* String.prototype.trim
RECURSIVE TrimStart(_)
TrimStart(s) ==
    IF s # <<>> /\ Head(s) = " " THEN TrimStart(Tail(s)) ELSE s

RECURSIVE TrimEnd(_)
TrimEnd(s) ==
    IF s # <<>> /\ s[Len(s)] = " " THEN TrimEnd(SubSeq(s, 1, Len(s) - 1)) ELSE s

trim(s) == TrimEnd(TrimStart(s))

\* String.prototype.toLowerCase
LowerChar(c) == CASE c = "A" -> "a" [] c = "B" -> "b" [] c = "C" -> "c" [] OTHER -> c

toLowerCase(s) == [i \in 1..Len(s) |-> LowerChar(s[i])]

\* Buffer.from(s).length: the UTF-8 length ("U+00E9" stands for e-acute)
RECURSIVE ByteLength(_)
ByteLength(s) ==
    IF s = <<>> THEN 0
    ELSE (IF Head(s) = "U+00E9" THEN 2 ELSE 1) + ByteLength(Tail(s))

\* `x?.trim().toLowerCase()`
Normalized(secret) ==
    IF secret.present THEN Secret(toLowerCase(trim(secret.chars))) ELSE NoSecret

\* `!x` of a string or undefined
Falsy(secret) == ~secret.present \/ secret.chars = <<>>

\* handleConnect up to its first await: where the connect goes.
\*   "permit": the permit callback; "reject": `return undefined`;
\*   "throw": crypto.timingSafeEqual throws on buffers of unequal byte length;
\*   "create": createKeyUserForConnect
handleConnectRoute(provided, admin) ==
    LET providedSecret == Normalized(provided)
        expectedSecret == Normalized(admin)
    IN IF Falsy(expectedSecret) THEN "permit"
       ELSE IF Falsy(providedSecret) THEN "permit"
       ELSE IF Len(providedSecret.chars) # Len(expectedSecret.chars) THEN "reject"
       ELSE IF ByteLength(providedSecret.chars) # ByteLength(expectedSecret.chars)
            THEN "throw"
       ELSE IF providedSecret.chars = expectedSecret.chars THEN "create"
       ELSE "reject"

Nip46Methods ==
    {"connect", "get_public_key", "sign_event", "nip44_encrypt", "nip44_decrypt",
     "nip04_encrypt", "ping", "describe"}

\* what handleMethod hands back to handleEvent
Returned(value, crypto) == [kind |-> "value", value |-> value, crypto |-> crypto]
Thrown(message) == [kind |-> "throw", value |-> message, crypto |-> "none"]
Undefined == [kind |-> "undefined", value |-> "", crypto |-> "none"]

\* the method handlers; paramsOk: the parameters are there and well formed
Dispatch(method, paramsOk) ==
    CASE method = "get_public_key" -> Returned("pubkey", "none")
      [] method = "sign_event" ->
            IF paramsOk THEN Returned("signed event", "sign")
            ELSE Thrown("Missing event to sign")
      [] method = "nip44_encrypt" ->
            IF paramsOk THEN Returned("ciphertext", "encrypt")
            ELSE Thrown("Missing parameters for nip44_encrypt")
      [] method = "nip44_decrypt" ->
            IF paramsOk THEN Returned("plaintext", "decrypt")
            ELSE Thrown("Missing parameters for nip44_decrypt")
      [] method \in {"nip04_encrypt", "nip04_decrypt"} ->
            Thrown("NIP-04 encryption is deprecated, use NIP-44")
      [] method = "ping" -> Returned("pong", "none")
      [] OTHER -> Thrown("Unsupported method")

\* handleMethod with the permit check left out
handleMethodUnchecked(method, paramsOk, permitted) == Dispatch(method, paramsOk)

\* handleMethod of a non-connect request, once the permit callback returned
handleMethodAfterPermit(method, paramsOk, permitted) ==
    IF ~permitted THEN Undefined ELSE Dispatch(method, paramsOk)

\* Nip46Response, as published to `to`
Result(id, to, result) == [id |-> id, to |-> to, result |-> result, error |-> ""]
Error(id, to, message) == [id |-> id, to |-> to, result |-> "error", error |-> message]

IdleHandling ==
    [pc |-> "idle", id |-> 0, remotePubkey |-> "", method |-> "",
     secret |-> NoSecret, paramsOk |-> FALSE,
     sigOk |-> FALSE, decryptOk |-> FALSE, decrypted |-> FALSE,
     parkedAt |-> NoTime, expired |-> FALSE,
     permitCalled |-> FALSE, permitted |-> "none", crypto |-> "none",
     createCalled |-> FALSE, ticket |-> 0,
     sent |-> <<>>, inTry |-> FALSE, publishFailed |-> FALSE]

\* an operation started as number `ticket` has returned
OpReturned(ticket) == ~(op.fn # "idle" /\ nOps = ticket)

\* handleEvent's `try` got a value back, `undefined`, or caught a throw:
\* sendResponse / sendError is called and awaits pool.publish
Respond(x, r) ==
    LET response == CASE r.kind = "value" -> Result(x.id, x.remotePubkey, r.value)
                      [] r.kind = "undefined" ->
                            Error(x.id, x.remotePubkey, "Not authorized")
                      [] r.kind = "throw" -> Error(x.id, x.remotePubkey, r.value)
    IN [x EXCEPT !.pc = "publish", !.crypto = r.crypto,
                 !.sent = Append(x.sent, response),
                 !.inTry = (r.kind # "throw")]

\* handleEvent up to its first await
HandleEvent(h, remotePubkey, sigOk, decryptOk, method, secret, paramsOk) ==
    /\ handling[h].pc = "idle"
    /\ LET x == [IdleHandling EXCEPT !.id = h, !.remotePubkey = remotePubkey,
                                     !.method = method, !.secret = secret,
                                     !.paramsOk = paramsOk,
                                     !.sigOk = sigOk, !.decryptOk = decryptOk,
                                     \* decryptRequest runs once verifyEvent passed
                                     !.decrypted = sigOk]
           route == IF method = "connect"
                    THEN handleConnectRoute(secret, adminSecret) ELSE "permit"
       IN IF ~sigOk \/ ~decryptOk
          THEN /\ handling' = [handling EXCEPT ![h] = [x EXCEPT !.pc = "done"]]
               /\ UNCHANGED aclVars
          ELSE IF route = "permit"
          THEN /\ handling' = [handling EXCEPT ![h] =
                        [x EXCEPT !.pc = "permit", !.permitCalled = TRUE,
                                  !.parkedAt = now]]
               /\ UNCHANGED aclVars
          ELSE IF route = "reject"
          THEN /\ handling' = [handling EXCEPT ![h] = Respond(x, Undefined)]
               /\ UNCHANGED aclVars
          ELSE IF route = "throw"
          THEN /\ handling' = [handling EXCEPT ![h] =
                        Respond(x, Thrown("Input buffers must have the same byte length"))]
               /\ UNCHANGED aclVars
          ELSE /\ CallCreateKeyUserForConnect(remotePubkey, BackendKey)
               /\ handling' = [handling EXCEPT ![h] =
                        [x EXCEPT !.pc = "createKeyUser", !.createCalled = TRUE,
                                  !.ticket = nOps + 1]]
    /\ UNCHANGED <<adminSecret, published, requestVars, tokenVars>>

PermitOutcomes == {"true", "false", "throws"}

\* the permit callback returns (or rejects)
PermitReturn(h, outcome) ==
    /\ handling[h].pc = "permit"
    /\ LET x == [handling[h] EXCEPT !.permitted = outcome]
           r == IF outcome = "throws" THEN Thrown("permit callback failed")
                ELSE IF x.method = "connect"
                THEN (IF outcome = "true" THEN Returned("ack", "none") ELSE Undefined)
                ELSE handleMethodAfterPermit(x.method, x.paramsOk, outcome = "true")
       IN handling' = [handling EXCEPT ![h] = Respond(x, r)]
    /\ UNCHANGED <<aclVars, adminSecret, published, requestVars, tokenVars>>

\* createKeyUserForConnect returns: handleConnect returns 'ack'
CreateKeyUserReturn(h) ==
    /\ handling[h].pc = "createKeyUser"
    /\ OpReturned(handling[h].ticket)
    /\ handling' = [handling EXCEPT ![h] =
                        Respond(handling[h], Returned("ack", "none"))]
    /\ UNCHANGED <<aclVars, adminSecret, published, requestVars, tokenVars>>

\* pool.publish resolves, or rejects: inside the `try` the catch block
\* sends the error; from the catch block the rejection leaves handleEvent
PublishReturn(h, ok) ==
    /\ handling[h].pc = "publish"
    /\ LET x == handling[h]
       IN IF ok
          THEN /\ published' = Append(published, x.sent[Len(x.sent)])
               /\ handling' = [handling EXCEPT ![h] = [x EXCEPT !.pc = "done"]]
          ELSE /\ UNCHANGED published
               /\ handling' = [handling EXCEPT ![h] =
                    IF x.inTry
                    THEN [Respond(x, Thrown("publish failed"))
                            EXCEPT !.publishFailed = TRUE, !.crypto = x.crypto]
                    ELSE [x EXCEPT !.pc = "done", !.publishFailed = TRUE]]
    /\ UNCHANGED <<aclVars, adminSecret, requestVars, tokenVars>>

\* The permit callback of a request parked for REQUEST_EXPIRY_MS: the
\* pending queue resolves the park with Expired, which is not an approval,
\* so the Promise<boolean> of the callback resolves to false
PermitExpire(h) ==
    /\ handling[h].pc = "permit"
    /\ now - handling[h].parkedAt >= REQUEST_EXPIRY_MS
    /\ LET x == [handling[h] EXCEPT !.permitted = "false", !.expired = TRUE]
           r == IF x.method = "connect" THEN Undefined
                ELSE handleMethodAfterPermit(x.method, x.paramsOk, FALSE)
       IN handling' = [handling EXCEPT ![h] = Respond(x, r)]
    /\ UNCHANGED <<aclVars, adminSecret, published, requestVars, tokenVars>>

----------------------------------------------------------------------------
(* BunkerBackend (the NDK-based backend): handleIncomingEvent, in the same *)
(* handler slots                                                            *)

\* BunkerBackend.handleConnect up to its first await:
\*   "fallthrough": { handled: false }; "silent": { handled: true };
\*   "create": createKeyUserForConnect
bunkerConnectRoute(provided, admin) ==
    LET providedSecret == Normalized(provided)
        expectedSecret == Normalized(admin)
    IN IF Falsy(expectedSecret) THEN "fallthrough"
       ELSE IF Falsy(providedSecret) THEN "fallthrough"
       ELSE IF providedSecret.chars # expectedSecret.chars THEN "silent"
       ELSE "create"

\* BunkerBackend.sendResponse is called and awaits the publish
BunkerRespond(x, response) ==
    [x EXCEPT !.pc = "bunkerPublish", !.sent = Append(x.sent, response)]

\* handleIncomingEvent up to its first await: rpc.parseEvent decrypts and
\* parses the content of the event it was handed
BunkerHandleIncomingEvent(h, remotePubkey, sigOk, decryptOk, method, secret) ==
    /\ handling[h].pc = "idle"
    /\ handling' = [handling EXCEPT ![h] =
            [IdleHandling EXCEPT !.pc = "parse", !.id = h,
                                 !.remotePubkey = remotePubkey,
                                 !.method = method, !.secret = secret,
                                 !.sigOk = sigOk, !.decryptOk = decryptOk,
                                 !.decrypted = TRUE]]
    /\ UNCHANGED <<aclVars, adminSecret, published, requestVars, tokenVars>>

\* rpc.parseEvent settles: a rejection leaves handleIncomingEvent; then the
\* signature check, the connect route and the look-up of the strategy
BunkerParsed(h, hasStrategy) ==
    /\ handling[h].pc = "parse"
    /\ LET x == handling[h]
           route == IF x.method = "connect"
                    THEN bunkerConnectRoute(x.secret, adminSecret)
                    ELSE "fallthrough"
       IN IF ~x.decryptOk \/ ~x.sigOk \/ route = "silent"
          THEN /\ handling' = [handling EXCEPT ![h] = [x EXCEPT !.pc = "done"]]
               /\ UNCHANGED aclVars
          ELSE IF route = "create"
          THEN /\ CallCreateKeyUserForConnect(x.remotePubkey, BackendKey)
               /\ handling' = [handling EXCEPT ![h] =
                        [x EXCEPT !.pc = "bunkerCreate", !.createCalled = TRUE,
                                  !.ticket = nOps + 1]]
          ELSE IF hasStrategy
          THEN /\ handling' = [handling EXCEPT ![h] = [x EXCEPT !.pc = "strategy"]]
               /\ UNCHANGED aclVars
          ELSE /\ handling' = [handling EXCEPT ![h] =
                        BunkerRespond(x, Error(x.id, x.remotePubkey, "Not authorized"))]
               /\ UNCHANGED aclVars
    /\ UNCHANGED <<adminSecret, published, requestVars, tokenVars>>

StrategyOutcomes == {"response", "undefined", "throws"}

\* strategy.handle settles
BunkerStrategyReturn(h, outcome) ==
    /\ handling[h].pc = "strategy"
    /\ LET x == handling[h]
           response ==
                CASE outcome = "response" -> Result(x.id, x.remotePubkey, "response")
                  [] outcome = "undefined" ->
                        Error(x.id, x.remotePubkey, "Not authorized")
                  [] outcome = "throws" ->
                        Error(x.id, x.remotePubkey, "strategy failed")
       IN handling' = [handling EXCEPT ![h] = BunkerRespond(x, response)]
    /\ UNCHANGED <<aclVars, adminSecret, published, requestVars, tokenVars>>

\* createKeyUserForConnect returns: handleConnect returns 'ack'
BunkerCreateKeyUserReturn(h) ==
    /\ handling[h].pc = "bunkerCreate"
    /\ OpReturned(handling[h].ticket)
    /\ handling' = [handling EXCEPT ![h] =
            BunkerRespond(handling[h], Result(h, handling[h].remotePubkey, "ack"))]
    /\ UNCHANGED <<aclVars, adminSecret, published, requestVars, tokenVars>>

\* event.publish settles; a rejection leaves handleIncomingEvent
BunkerPublishReturn(h, ok) ==
    /\ handling[h].pc = "bunkerPublish"
    /\ LET x == handling[h]
       IN /\ published' = IF ok THEN Append(published, x.sent[Len(x.sent)])
                          ELSE published
          /\ handling' = [handling EXCEPT ![h] =
                [x EXCEPT !.pc = "done", !.publishFailed = ~ok]]
    /\ UNCHANGED <<aclVars, adminSecret, requestVars, tokenVars>>

----------------------------------------------------------------------------
(* Parked requests: the Request table (RequestRepository), the batch       *)
(* approval route and the single approve / deny calls.                      *)

MAX_BATCH_SIZE == 50

MaxBatches == 2         \* batch approval calls
MaxBatchIds == 2        \* ids in one batch body

RequestIds == {"r1"}
BatchSlots == 1..MaxBatches
DeciderSlots == {1}

NoRequest ==
    [state |-> "absent", allowed |-> "null", processedAt |-> NoTime,
     createdAt |-> NoTime, method |-> "", keyName |-> "", remotePubkey |-> "",
     params |-> NoPayload]

\* RequestRepository.create: the authorization flow parks a request.  Ids
\* are fresh: an id is used for one row only.
CreateRequest(id, keyName, remotePubkey, method, params) ==
    /\ requests[id].state = "absent"
    /\ requests' = [requests EXCEPT ![id] =
            [NoRequest EXCEPT !.state = "present", !.createdAt = now,
                              !.method = method, !.keyName = keyName,
                              !.remotePubkey = remotePubkey,
                              !.params = params]]
    /\ UNCHANGED <<aclVars, backendVars, batches, deciders, emitted, tokenVars>>

\* RequestRepository.cleanupExpired(maxAge), with maxAge = now - the TTL
CleanupExpired ==
    /\ requests' = [id \in RequestIds |->
            IF /\ requests[id].state = "present"
               /\ requests[id].allowed = "null"
               /\ requests[id].createdAt < now - REQUEST_EXPIRY_MS
            THEN [requests[id] EXCEPT !.state = "deleted"]
            ELSE requests[id]]
    /\ requests' # requests
    /\ UNCHANGED <<aclVars, backendVars, batches, deciders, emitted, tokenVars>>

\* prisma.request.update({where: {id}, data: {allowed, processedAt: new Date()}})
\* on the row that is there; without a row the update throws
UpdateRequest(table, id, allowed) ==
    [table EXCEPT ![id] = [@ EXCEPT !.allowed = allowed, !.processedAt = now]]

(* POST /requests/batch *)
IdleBatch ==
    [pc |-> "idle", ids |-> <<>>, i |-> 0, trustLevel |-> "", alwaysAllow |-> FALSE,
     record |-> NoRequest, updated |-> FALSE, ticket |-> 0,
     results |-> <<>>, granted |-> <<>>, status |-> 0,
     summary |-> [approved |-> 0, failed |-> 0]]

Success(id) == [id |-> id, success |-> TRUE, error |-> ""]
Failure(id, error) == [id |-> id, success |-> FALSE, error |-> error]

RECURSIVE CountSuccess(_)
CountSuccess(results) ==
    IF results = <<>> THEN 0
    ELSE (IF Head(results).success THEN 1 ELSE 0) + CountSuccess(Tail(results))

\* a result is pushed; the loop goes to the next id (its findUnique is
\* issued) or the reply is sent
PushResult(x, result) ==
    LET results == Append(x.results, result)
    IN IF x.i < Len(x.ids)
       THEN [x EXCEPT !.results = results, !.i = x.i + 1, !.pc = "find",
                      !.record = requests[x.ids[x.i + 1]]]
       ELSE [x EXCEPT !.results = results, !.pc = "done", !.status = 200,
                      !.summary = [approved |-> CountSuccess(results),
                                   failed |-> Len(results) - CountSuccess(results)]]

BatchStart(b, ids, trustLevel, alwaysAllow) ==
    /\ batches[b].pc = "idle"
    /\ batches' = [batches EXCEPT ![b] =
            IF Len(ids) = 0 \/ Len(ids) > MAX_BATCH_SIZE
            THEN [IdleBatch EXCEPT !.pc = "done", !.ids = ids, !.status = 400]
            ELSE [IdleBatch EXCEPT !.pc = "find", !.ids = ids, !.i = 1,
                                   !.trustLevel = trustLevel,
                                   !.alwaysAllow = alwaysAllow,
                                   !.record = requests[ids[1]]]]
    /\ UNCHANGED <<aclVars, backendVars, requests, deciders, emitted, tokenVars>>

\* after `await prisma.request.findUnique`: the checks, then the update
BatchFind(b) ==
    /\ batches[b].pc = "find"
    /\ LET x == batches[b]
           id == x.ids[x.i]
       IN IF x.record.state # "present"
          THEN /\ batches' = [batches EXCEPT ![b] =
                        PushResult(x, Failure(id, "Request not found"))]
               /\ UNCHANGED requests
          ELSE IF x.record.allowed # "null"
          THEN /\ batches' = [batches EXCEPT ![b] =
                        PushResult(x, Failure(id, "Request already processed"))]
               /\ UNCHANGED requests
          ELSE IF requests[id].state = "present"
          THEN /\ requests' = UpdateRequest(requests, id, "true")
               /\ batches' = [batches EXCEPT ![b] =
                        [x EXCEPT !.pc = "update", !.updated = TRUE]]
          ELSE /\ UNCHANGED requests
               /\ batches' = [batches EXCEPT ![b] =
                        [x EXCEPT !.pc = "update", !.updated = FALSE]]
    /\ UNCHANGED <<aclVars, backendVars, deciders, emitted, tokenVars>>

\* after `await prisma.request.update`: request:approved is emitted and the
\* permissions are granted
BatchUpdate(b) ==
    /\ batches[b].pc = "update"
    /\ LET x == batches[b]
           id == x.ids[x.i]
           rec == x.record
       IN IF ~x.updated
          THEN /\ batches' = [batches EXCEPT ![b] =
                        PushResult(x, Failure(id, "Record to update not found"))]
               /\ UNCHANGED <<emitted, aclVars>>
          ELSE /\ emitted' = Append(emitted, [type |-> "request:approved", id |-> id])
               /\ IF rec.method = "connect"
                  THEN /\ CallGrantPermissionsByTrustLevel(rec.remotePubkey,
                                                           rec.keyName, x.trustLevel)
                       /\ batches' = [batches EXCEPT ![b] =
                            [x EXCEPT !.pc = "grant", !.ticket = nOps + 1,
                                      !.granted = Append(x.granted, id)]]
                  ELSE IF x.alwaysAllow
                  THEN /\ CallPermitAllRequests(rec.remotePubkey, rec.keyName,
                                                rec.method, KindAll)
                       /\ batches' = [batches EXCEPT ![b] =
                            [x EXCEPT !.pc = "grant", !.ticket = nOps + 1,
                                      !.granted = Append(x.granted, id)]]
                  ELSE /\ batches' = [batches EXCEPT ![b] = [x EXCEPT !.pc = "log"]]
                       /\ UNCHANGED aclVars
    /\ UNCHANGED <<backendVars, requests, deciders, tokenVars>>

\* the grant returned; for a connect, appService.getAppById and app:connected
BatchGrant(b) ==
    /\ batches[b].pc = "grant"
    /\ OpReturned(batches[b].ticket)
    /\ batches' = [batches EXCEPT ![b] = [@ EXCEPT !.pc = "log"]]
    /\ emitted' = IF batches[b].record.method = "connect"
                  THEN Append(emitted, [type |-> "app:connected",
                                        id |-> batches[b].ids[batches[b].i]])
                  ELSE emitted
    /\ UNCHANGED <<aclVars, backendVars, requests, deciders, tokenVars>>

\* the approval is logged (keyUser.findUnique, log.create) and the id succeeds
BatchLog(b) ==
    /\ batches[b].pc = "log"
    /\ batches' = [batches EXCEPT ![b] =
            PushResult(batches[b], Success(batches[b].ids[batches[b].i]))]
    /\ UNCHANGED <<aclVars, backendVars, requests, deciders, emitted, tokenVars>>

\* an awaited call after the update rejects (the grant in flight, or
\* keyUser.findUnique / log.create): the catch block pushes a failure
BatchCatch(b) ==
    /\ batches[b].pc \in {"grant", "log"}
    /\ LET x == batches[b]
           id == x.ids[x.i]
       IN /\ batches' = [batches EXCEPT ![b] =
                    PushResult(x, Failure(id, "database error"))]
          /\ IF x.pc = "grant" /\ ~OpReturned(x.ticket)
             THEN op' = IdleOp
             ELSE UNCHANGED op
    /\ UNCHANGED <<now, keyUsers, nextKeyUserId, conditions, aclCache, evals,
                   nEvals, nOps, revokeReturned, revokeFresh, blockReturned,
                   allKeys, configKeys, activeKeys>>
    /\ UNCHANGED <<backendVars, requests, deciders, emitted, tokenVars>>

(* A single approve or deny of a request: RequestRepository.findPending,   *)
(* then RequestRepository.approve / deny                                    *)
IdleDecider ==
    [pc |-> "idle", id |-> "", decision |-> "", record |-> NoRequest,
     updated |-> FALSE, result |-> ""]

\* RequestRepository.findPending: the row, if it is there and undecided
findPending(table, id) ==
    IF table[id].state # "present" \/ table[id].allowed # "null"
    THEN NoRequest ELSE table[id]

DecideStart(d, id, decision) ==
    /\ deciders[d].pc = "idle"
    /\ deciders' = [deciders EXCEPT ![d] =
            [IdleDecider EXCEPT !.pc = "find", !.id = id, !.decision = decision,
                                !.record = findPending(requests, id)]]
    /\ UNCHANGED <<aclVars, backendVars, requests, batches, emitted, tokenVars>>

\* after findPending: nothing pending is AlreadyProcessed, otherwise
\* RequestRepository.approve / deny is called
DecideFind(d) ==
    /\ deciders[d].pc = "find"
    /\ LET x == deciders[d]
       IN IF x.record.state # "present"
          THEN /\ deciders' = [deciders EXCEPT ![d] =
                        [x EXCEPT !.pc = "done", !.result = "AlreadyProcessed"]]
               /\ UNCHANGED requests
          ELSE IF requests[x.id].state = "present"
          THEN /\ requests' = UpdateRequest(requests, x.id,
                        IF x.decision = "approve" THEN "true" ELSE "false")
               /\ deciders' = [deciders EXCEPT ![d] =
                        [x EXCEPT !.pc = "update", !.updated = TRUE]]
          ELSE /\ UNCHANGED requests
               /\ deciders' = [deciders EXCEPT ![d] =
                        [x EXCEPT !.pc = "update", !.updated = FALSE]]
    /\ UNCHANGED <<aclVars, backendVars, batches, emitted, tokenVars>>

DecideUpdate(d) ==
    /\ deciders[d].pc = "update"
    /\ deciders' = [deciders EXCEPT ![d] =
            [@ EXCEPT !.pc = "done",
                      !.result = IF deciders[d].updated THEN "ok" ELSE "NotFound"]]
    /\ UNCHANGED <<aclVars, backendVars, requests, batches, emitted, tokenVars>>

\* the caller has its answer; the slot takes the next call
DecideReturn(d) ==
    /\ deciders[d].pc = "done"
    /\ deciders' = [deciders EXCEPT ![d] = IdleDecider]
    /\ UNCHANGED <<aclVars, backendVars, requests, batches, emitted, tokenVars>>

----------------------------------------------------------------------------
(* ConnectionTokenService: one-time connection tokens                      *)

DEFAULT_EXPIRY_MINUTES == 5
TokenExpiryMs == DEFAULT_EXPIRY_MINUTES * 60 * 1000
RedeemedKeepMs == 60 * 60 * 1000

MaxRedeems == 2         \* validateAndRedeemToken calls
Redeemers == 1..MaxRedeems
Tokens == {"t1"}

NoToken ==
    [state |-> "absent", keyName |-> "", expiresAt |-> NoTime, redeemedAt |-> NoTime]

\* createToken: 32 random bytes, so a token value is issued once
CreateToken(t, keyName) ==
    /\ tokens[t].state = "absent"
    /\ tokens' = [tokens EXCEPT ![t] =
            [NoToken EXCEPT !.state = "present", !.keyName = keyName,
                            !.expiresAt = now + TokenExpiryMs]]
    /\ UNCHANGED <<aclVars, backendVars, requestVars, redeems, policyVars, http, sideVars>>

IdleRedeem ==
    [pc |-> "idle", token |-> "", keyName |-> "", at |-> NoTime, count |-> 0,
     result |-> "none"]

\* the `where` of updateMany without `redeemedAt: null`
RedeemWhereIgnoringRedeemed(row, keyName, at) ==
    /\ row.state = "present"
    /\ row.keyName = keyName
    /\ row.expiresAt > at

\* the `where` of validateAndRedeemToken's updateMany, on the row of the token
RedeemWhere(row, keyName, at) ==
    /\ row.state = "present"
    /\ row.keyName = keyName
    /\ row.expiresAt > at
    /\ row.redeemedAt = NoTime

\* validateAndRedeemToken: `now` is taken and updateMany is issued
RedeemCall(r, t, keyName) ==
    /\ redeems[r].pc = "idle"
    /\ redeems' = [redeems EXCEPT ![r] =
            [IdleRedeem EXCEPT !.pc = "update", !.token = t, !.keyName = keyName,
                               !.at = now]]
    /\ UNCHANGED <<aclVars, backendVars, requestVars, tokens, policyVars, http, sideVars>>

\* the database runs the updateMany, in one statement
RedeemUpdate(r) ==
    /\ redeems[r].pc = "update"
    /\ LET x == redeems[r]
           hit == RedeemWhere(tokens[x.token], x.keyName, x.at)
       IN /\ tokens' = IF hit
                       THEN [tokens EXCEPT ![x.token] = [@ EXCEPT !.redeemedAt = x.at]]
                       ELSE tokens
          /\ redeems' = [redeems EXCEPT ![r] =
                [x EXCEPT !.pc = "return", !.count = IF hit THEN 1 ELSE 0]]
    /\ UNCHANGED <<aclVars, backendVars, requestVars, policyVars, http, sideVars>>

\* `return result.count > 0`
RedeemReturn(r) ==
    /\ redeems[r].pc = "return"
    /\ redeems' = [redeems EXCEPT ![r] =
            [@ EXCEPT !.pc = "done",
                      !.result = IF redeems[r].count > 0 THEN "true" ELSE "false"]]
    /\ UNCHANGED <<aclVars, backendVars, requestVars, tokens, policyVars, http, sideVars>>

\* cleanupExpiredTokens: expired rows and rows redeemed over an hour ago go
CleanupExpiredTokens ==
    /\ tokens' = [t \in Tokens |->
            IF /\ tokens[t].state = "present"
               /\ \/ tokens[t].expiresAt < now
                  \/ /\ tokens[t].redeemedAt # NoTime
                     /\ tokens[t].redeemedAt < now - RedeemedKeepMs
            THEN [tokens[t] EXCEPT !.state = "deleted"]
            ELSE tokens[t]]
    /\ tokens' # tokens
    /\ UNCHANGED <<aclVars, backendVars, requestVars, redeems, policyVars, http, sideVars>>

----------------------------------------------------------------------------
(* Policy tokens: applyToken of Nip46Backend (subscription-manager.ts) and *)
(* of BunkerBackend.  One Token row with its policy; every database call   *)
(* of an applyToken call is a step, which takes `ok`: whether the call     *)
(* resolves or rejects.                                                    *)

MaxApplies == 2         \* applyToken calls
Appliers == 1..MaxApplies

\* remote pubkeys presenting the token
ApplyPubkeys == {"p1", "p2"}

TokenBackends == {"Nip46Backend", "BunkerBackend"}

\* the PolicyRule rows of the token's policy
PolicyRules ==
    <<[method |-> "sign_event", kind |-> 1],
      [method |-> "nip44_encrypt", kind |-> NoKind]>>

\* a Token row
NewPolicyToken(keyName, expiresAt) ==
    [keyName |-> keyName, expiresAt |-> expiresAt, redeemedAt |-> NoTime,
     keyUserId |-> 0]

\* created: the SigningCondition rows this call has inserted
IdleApply ==
    [pc |-> "idle", backend |-> "", remotePubkey |-> "", keyUserId |-> 0,
     rule |-> 0, created |-> EmptyBag, result |-> "none", error |-> ""]

\* the call throws
ApplyThrows(x, message) ==
    [x EXCEPT !.pc = "done", !.result = "throws", !.error = message]

\* a database call inside Nip46Backend's `try` rejects: the catch block
\* runs; BunkerBackend has no `try`
ApplyCaught(x) ==
    IF x.backend = "Nip46Backend"
    THEN [x EXCEPT !.pc = "unclaim", !.error = "database error"]
    ELSE ApplyThrows(x, "database error")

\* the condition applyToken creates for a rule
RuleCondition(keyUserId, rule) ==
    Cond(keyUserId, rule.method,
         IF rule.kind # NoKind THEN NumberToString(rule.kind) ELSE KindNull, TRUE)

applyFrame ==
    <<now, aclCache, evals, op, nEvals, nOps, revokeReturned, revokeFresh,
      blockReturned, allKeys, configKeys, activeKeys, backendVars, requestVars,
      tokens, redeems, http, sideVars>>

\* applyToken(remotePubkey, token) is called on a backend of the daemon
ApplyToken(a, backend, remotePubkey) ==
    /\ applies[a].pc = "idle"
    /\ \A b \in Appliers : applies[b].pc # "idle" => applies[b].backend = backend
    /\ applies' = [applies EXCEPT ![a] =
            [IdleApply EXCEPT !.pc = "fetch", !.backend = backend,
                              !.remotePubkey = remotePubkey]]
    /\ UNCHANGED <<applyFrame, keyUsers, nextKeyUserId, conditions, policyToken>>

\* fetchTokenRecord / fetchValidToken: findUnique and the checks on the row
ApplyFetch(a) ==
    /\ applies[a].pc = "fetch"
    /\ LET x == applies[a]
       IN applies' = [applies EXCEPT ![a] =
            IF policyToken.redeemedAt # NoTime
            THEN ApplyThrows(x, "Token already redeemed")
            ELSE IF policyToken.expiresAt # NoTime /\ policyToken.expiresAt < now
            THEN ApplyThrows(x, "Token expired")
            ELSE [x EXCEPT !.pc = IF x.backend = "Nip46Backend"
                                  THEN "claim" ELSE "upsert"]]
    /\ UNCHANGED <<applyFrame, keyUsers, nextKeyUserId, conditions, policyToken>>

\* Nip46Backend: updateMany where {id, redeemedAt: null}, and `count === 0`
ApplyClaim(a) ==
    /\ applies[a].pc = "claim"
    /\ LET x == applies[a]
       IN IF policyToken.redeemedAt = NoTime
          THEN /\ policyToken' = [policyToken EXCEPT !.redeemedAt = now]
               /\ applies' = [applies EXCEPT ![a] = [x EXCEPT !.pc = "upsert"]]
          ELSE /\ UNCHANGED policyToken
               /\ applies' = [applies EXCEPT ![a] =
                                ApplyThrows(x, "Token already redeemed")]
    /\ UNCHANGED <<applyFrame, keyUsers, nextKeyUserId, conditions>>

\* prisma.keyUser.upsert with update {}
ApplyUpsert(a, ok) ==
    /\ applies[a].pc = "upsert"
    /\ LET x == applies[a]
           u == UpsertKeyUser(policyToken.keyName, x.remotePubkey,
                              DEFAULT_TRUST_LEVEL, EmptyUpdate)
       IN IF ok
          THEN /\ keyUsers' = u.keyUsers
               /\ nextKeyUserId' = u.nextId
               /\ applies' = [applies EXCEPT ![a] =
                    [x EXCEPT !.keyUserId = u.id,
                              !.pc = IF x.backend = "Nip46Backend"
                                     THEN "link" ELSE "connect"]]
          ELSE /\ applies' = [applies EXCEPT ![a] = ApplyCaught(x)]
               /\ UNCHANGED <<keyUsers, nextKeyUserId>>
    /\ UNCHANGED <<applyFrame, conditions, policyToken>>

\* Nip46Backend: prisma.token.update data {keyUserId}
ApplyLink(a, ok) ==
    /\ applies[a].pc = "link"
    /\ LET x == applies[a]
       IN IF ok
          THEN /\ policyToken' = [policyToken EXCEPT !.keyUserId = x.keyUserId]
               /\ applies' = [applies EXCEPT ![a] = [x EXCEPT !.pc = "connect"]]
          ELSE /\ UNCHANGED policyToken
               /\ applies' = [applies EXCEPT ![a] = ApplyCaught(x)]
    /\ UNCHANGED <<applyFrame, keyUsers, nextKeyUserId, conditions>>

\* prisma.signingCondition.create of the connect condition
ApplyCreateConnect(a, ok) ==
    /\ applies[a].pc = "connect"
    /\ LET x == applies[a]
           c == Cond(x.keyUserId, "connect", KindNull, TRUE)
       IN IF ok
          THEN /\ conditions' = CreateCondition(conditions, c)
               /\ applies' = [applies EXCEPT ![a] =
                    [x EXCEPT !.pc = "rules",
                              !.created = CreateCondition(x.created, c)]]
          ELSE /\ UNCHANGED conditions
               /\ applies' = [applies EXCEPT ![a] = ApplyCaught(x)]
    /\ UNCHANGED <<applyFrame, keyUsers, nextKeyUserId, policyToken>>

\* the loop over record.policy.rules: one create per rule; past the last
\* rule Nip46Backend's applyToken returns and BunkerBackend's updates the token
ApplyCreateRule(a, ok) ==
    /\ applies[a].pc = "rules"
    /\ LET x == applies[a]
           c == RuleCondition(x.keyUserId, PolicyRules[x.rule + 1])
           last == x.rule + 1 = Len(PolicyRules)
       IN IF ok
          THEN /\ conditions' = CreateCondition(conditions, c)
               /\ applies' = [applies EXCEPT ![a] =
                    [x EXCEPT !.rule = x.rule + 1,
                              !.created = CreateCondition(x.created, c),
                              !.pc = IF ~last THEN "rules"
                                     ELSE IF x.backend = "Nip46Backend"
                                     THEN "done" ELSE "redeem",
                              !.result = IF last /\ x.backend = "Nip46Backend"
                                         THEN "ok" ELSE "none"]]
          ELSE /\ UNCHANGED conditions
               /\ applies' = [applies EXCEPT ![a] = ApplyCaught(x)]
    /\ UNCHANGED <<applyFrame, keyUsers, nextKeyUserId, policyToken>>

\* BunkerBackend: prisma.token.update data {redeemedAt, keyUserId}
ApplyRedeem(a, ok) ==
    /\ applies[a].pc = "redeem"
    /\ LET x == applies[a]
       IN IF ok
          THEN /\ policyToken' = [policyToken EXCEPT !.redeemedAt = now,
                                                     !.keyUserId = x.keyUserId]
               /\ applies' = [applies EXCEPT ![a] =
                                [x EXCEPT !.pc = "done", !.result = "ok"]]
          ELSE /\ UNCHANGED policyToken
               /\ applies' = [applies EXCEPT ![a] = ApplyThrows(x, "database error")]
    /\ UNCHANGED <<applyFrame, keyUsers, nextKeyUserId, conditions>>

\* Nip46Backend's catch block: prisma.token.update data {redeemedAt: null,
\* keyUserId: null}, then `throw error`
ApplyUnclaim(a, ok) ==
    /\ applies[a].pc = "unclaim"
    /\ policyToken' = IF ok
                      THEN [policyToken EXCEPT !.redeemedAt = NoTime, !.keyUserId = 0]
                      ELSE policyToken
    /\ applies' = [applies EXCEPT ![a] = ApplyThrows(applies[a], applies[a].error)]
    /\ UNCHANGED <<applyFrame, keyUsers, nextKeyUserId, conditions>>

----------------------------------------------------------------------------
(* The HTTP layer's error replies (getErrorStatus, sendError).  A message  *)
(* is the sequence of its words; String.includes of a pattern is the       *)
(* pattern's words occurring in a row, with their case.                    *)

errorStatusMap ==
    <<[pattern |-> <<"Invalid">>, status |-> 400],
      [pattern |-> <<"required">>, status |-> 400],
      [pattern |-> <<"not", "a", "valid">>, status |-> 400],
      [pattern |-> <<"Passphrase", "required">>, status |-> 400],
      [pattern |-> <<"Nothing", "to", "update">>, status |-> 400],
      [pattern |-> <<"not", "found">>, status |-> 404],
      [pattern |-> <<"Not", "found">>, status |-> 404],
      [pattern |-> <<"already", "exists">>, status |-> 409]>>

\* message.includes(pattern)
includes(message, pattern) ==
    \E i \in 0..(Len(message) - Len(pattern)) :
        SubSeq(message, i + 1, i + Len(pattern)) = pattern

\* the entries of errorStatusMap are tried in order, the first hit returns
getErrorStatus(message) ==
    LET hits == {i \in DOMAIN errorStatusMap :
                    includes(message, errorStatusMap[i].pattern)}
    IN IF hits = {} THEN 500
       ELSE errorStatusMap[CHOOSE i \in hits : \A j \in hits : i <= j].status

\* the errors KeyService throws: the operation, the error kind of the
\* operation's contract it stands for, and the message
ServiceErrors ==
    {[op |-> "createKey", kind |-> "NameInUse",
      message |-> <<"A", "key", "with", "this", "name", "already", "exists">>],
     [op |-> "createKey", kind |-> "InvalidSecretEncoding",
      message |-> <<"Provided", "secret", "is", "not", "a", "valid", "nsec">>],
     [op |-> "unlockKey", kind |-> "NotFound",
      message |-> <<"No", "encrypted", "key", "material", "found">>],
     [op |-> "unlockKey", kind |-> "NotEncrypted",
      message |-> <<"No", "encrypted", "key", "material", "found">>],
     [op |-> "setPassphrase", kind |-> "NotFound",
      message |-> <<"Key", "not", "found">>],
     [op |-> "setPassphrase", kind |-> "AlreadyEncrypted",
      message |-> <<"Key", "is", "already", "encrypted.", "Use", "change",
                    "passphrase", "instead.">>],
     [op |-> "setPassphrase", kind |-> "EmptyPassphrase",
      message |-> <<"Passphrase", "is", "required">>],
     [op |-> "renameKey", kind |-> "NotFound",
      message |-> <<"Key", "not", "found">>],
     [op |-> "renameKey", kind |-> "NameInUse",
      message |-> <<"A", "key", "with", "this", "name", "already", "exists">>],
     [op |-> "renameKey", kind |-> "EmptyName",
      message |-> <<"Key", "name", "cannot", "be", "empty">>],
     [op |-> "deleteKey", kind |-> "NotFound",
      message |-> <<"Key", "not", "found">>],
     [op |-> "deleteKey", kind |-> "PassphraseRequired",
      message |-> <<"Passphrase", "required", "to", "delete", "encrypted", "key">>],
     [op |-> "deleteKey", kind |-> "InvalidPassphrase",
      message |-> <<"Invalid", "passphrase">>]}

NoReply == [pc |-> "idle", message |-> <<>>, status |-> 0]

\* a route handler's service call throws Error(message): withErrorHandler
\* catches it
RouteThrows(message) ==
    /\ http.pc = "idle"
    /\ http' = [http EXCEPT !.pc = "caught", !.message = message]

\* sendError: reply.code(getErrorStatus(message)).send({ error: message })
SendError ==
    /\ http.pc = "caught"
    /\ http' = [http EXCEPT !.pc = "sent", !.status = getErrorStatus(http.message)]

----------------------------------------------------------------------------
(* KeyService (key-service.ts): the key vault.  One call is in flight at a *)
(* time, in `keyOp`; deleteKey keeps its position in `op`.  The step of an *)
(* await takes `ok`: whether the awaited call resolves or rejects.         *)

MaxKeyOps == 2

\* key names the vault is called with; " " is a blank name
KeyNames == {"k1", "k2", " "}

\* `!newName.trim()`
IsBlank(name) == name \in {"", " "}

\* what a failed call must leave as it was, and the KeyUser table
Snapshot ==
    [configKeys |-> configKeys, allKeys |-> allKeys, activeKeys |-> activeKeys,
     keyUsers |-> keyUsers]

IdleKeyOp ==
    [fn |-> "none", pc |-> "", keyName |-> "", newName |-> "",
     passphrase |-> "none", config |-> {},
     before |-> [configKeys |-> {}, allKeys |-> <<>>, activeKeys |-> {},
                 keyUsers |-> {}],
     outcome |-> "none", error |-> "", revokedApps |-> 0, n |-> 0]

KeyOpFree == keyOp.outcome # "running" /\ OpIdle /\ keyOp.n < MaxKeyOps

BeginKeyOp(fn, keyName, newName, passphrase) ==
    [IdleKeyOp EXCEPT !.fn = fn, !.keyName = keyName, !.newName = newName,
                      !.passphrase = passphrase, !.before = Snapshot,
                      !.outcome = "running", !.n = keyOp.n + 1]

\* the call throws / returns
Throw(x, error) == [x EXCEPT !.outcome = "failed", !.error = error, !.pc = ""]
Return(x) == [x EXCEPT !.outcome = "ok", !.pc = ""]

\* a stored record: `{ key }` or the encrypted `{ iv, data }`
StoredKey(encrypted) == [encrypted |-> encrypted]

\* obj[name] = value / delete obj[name], of allKeys
SetKey(keys, name, record) ==
    [k \in DOMAIN keys \cup {name} |-> IF k = name THEN record ELSE keys[k]]
DeleteKey(keys, name) == [k \in DOMAIN keys \ {name} |-> keys[k]]

\* the state the vault's calls leave alone
keyFrame ==
    <<now, nextKeyUserId, conditions, aclCache, evals, op, nEvals, nOps,
      revokeReturned, revokeFresh, blockReturned, backendVars, tokenVars,
      batches, deciders, emitted, wire>>

(* createKey({ keyName, passphrase, nsec }) *)
createKeyCheck(keyName, nsecOk) ==
    IF keyName \in DOMAIN allKeys THEN "A key with this name already exists"
    ELSE IF ~nsecOk THEN "Provided secret is not a valid nsec"
    ELSE "ok"

CallCreateKey(keyName, passphrase, nsecOk) ==
    /\ KeyOpFree
    /\ LET x == BeginKeyOp("createKey", keyName, "", passphrase)
           check == createKeyCheck(keyName, nsecOk)
       IN keyOp' = IF check # "ok" THEN Throw(x, check)
                   ELSE [x EXCEPT !.pc = "loadConfig"]
    /\ UNCHANGED <<keyFrame, keyUsers, requests, configKeys, allKeys, activeKeys>>

StepCreateKey(ok) ==
    /\ keyOp.fn = "createKey" /\ keyOp.outcome = "running"
    /\ \/ /\ keyOp.pc = "loadConfig"
          /\ keyOp' = IF ok
                      THEN [keyOp EXCEPT !.pc = "saveConfig",
                                         !.config = configKeys \cup {keyOp.keyName}]
                      ELSE Throw(keyOp, "loadConfig failed")
          /\ UNCHANGED <<configKeys, allKeys, activeKeys>>
       \/ /\ keyOp.pc = "saveConfig"
          /\ IF ok
             THEN /\ configKeys' = keyOp.config
                  /\ activeKeys' = activeKeys \cup {keyOp.keyName}
                  /\ allKeys' = SetKey(allKeys, keyOp.keyName,
                                       StoredKey(keyOp.passphrase # "none"))
                  /\ keyOp' = [keyOp EXCEPT !.pc = "onKeyActivated"]
             ELSE /\ keyOp' = Throw(keyOp, "saveConfig failed")
                  /\ UNCHANGED <<configKeys, allKeys, activeKeys>>
       \/ /\ keyOp.pc = "onKeyActivated"
          /\ keyOp' = IF ok THEN Return(keyOp)
                      ELSE Throw(keyOp, "onKeyActivated failed")
          /\ UNCHANGED <<configKeys, allKeys, activeKeys>>
    /\ UNCHANGED <<keyFrame, keyUsers, requests>>

(* unlockKey(keyName, passphrase) *)
unlockKeyCheck(keyName, passphrase) ==
    IF keyName \notin DOMAIN allKeys THEN "No encrypted key material found"
    ELSE IF ~allKeys[keyName].encrypted THEN "No encrypted key material found"
    ELSE IF ~DecryptSecretOk(passphrase) THEN "decryptSecret failed"
    ELSE "ok"

CallUnlockKey(keyName, passphrase) ==
    /\ KeyOpFree
    /\ LET x == BeginKeyOp("unlockKey", keyName, "", passphrase)
           check == unlockKeyCheck(keyName, passphrase)
       IN IF check # "ok"
          THEN /\ keyOp' = Throw(x, check)
               /\ UNCHANGED activeKeys
          ELSE /\ activeKeys' = activeKeys \cup {keyName}
               /\ keyOp' = [x EXCEPT !.pc = "onKeyActivated"]
    /\ UNCHANGED <<keyFrame, keyUsers, requests, configKeys, allKeys>>

StepUnlockKey(ok) ==
    /\ keyOp.fn = "unlockKey" /\ keyOp.outcome = "running"
    /\ keyOp.pc = "onKeyActivated"
    /\ keyOp' = IF ok THEN Return(keyOp) ELSE Throw(keyOp, "onKeyActivated failed")
    /\ UNCHANGED <<keyFrame, keyUsers, requests, configKeys, allKeys, activeKeys>>

(* setPassphrase(keyName, passphrase) *)
setPassphraseCheck(keyName, passphrase) ==
    IF keyName \notin DOMAIN allKeys THEN "Key not found"
    ELSE IF allKeys[keyName].encrypted
         THEN "Key is already encrypted. Use change passphrase instead."
    ELSE IF passphrase = "none" THEN "Passphrase is required"
    ELSE "ok"

CallSetPassphrase(keyName, passphrase) ==
    /\ KeyOpFree
    /\ LET x == BeginKeyOp("setPassphrase", keyName, "", passphrase)
           check == setPassphraseCheck(keyName, passphrase)
       IN keyOp' = IF check # "ok" THEN Throw(x, check)
                   ELSE [x EXCEPT !.pc = "loadConfig"]
    /\ UNCHANGED <<keyFrame, keyUsers, requests, configKeys, allKeys, activeKeys>>

StepSetPassphrase(ok) ==
    /\ keyOp.fn = "setPassphrase" /\ keyOp.outcome = "running"
    /\ \/ /\ keyOp.pc = "loadConfig"
          /\ keyOp' = IF ok
                      THEN [keyOp EXCEPT !.pc = "saveConfig",
                                         !.config = configKeys \cup {keyOp.keyName}]
                      ELSE Throw(keyOp, "loadConfig failed")
          /\ UNCHANGED <<configKeys, allKeys>>
       \/ /\ keyOp.pc = "saveConfig"
          /\ IF ok
             THEN /\ configKeys' = keyOp.config
                  /\ allKeys' = SetKey(allKeys, keyOp.keyName, StoredKey(TRUE))
                  /\ keyOp' = Return(keyOp)
             ELSE /\ keyOp' = Throw(keyOp, "saveConfig failed")
                  /\ UNCHANGED <<configKeys, allKeys>>
    /\ UNCHANGED <<keyFrame, keyUsers, requests, activeKeys>>

(* renameKey(oldName, newName) *)
renameKeyCheck(oldName, newName) ==
    IF oldName \notin DOMAIN allKeys THEN "Key not found"
    ELSE IF newName \in DOMAIN allKeys THEN "A key with this name already exists"
    ELSE IF IsBlank(newName) THEN "Key name cannot be empty"
    ELSE "ok"

\* KeyRepository.renameKey: one transaction over the tables that carry the
\* key's name
RenameKeyUsers(kus, oldName, newName) ==
    {IF ku.keyName = oldName THEN [ku EXCEPT !.keyName = newName] ELSE ku : ku \in kus}

RenameRequests(reqs, oldName, newName) ==
    [id \in DOMAIN reqs |->
        IF reqs[id].keyName = oldName
        THEN [reqs[id] EXCEPT !.keyName = newName] ELSE reqs[id]]

CallRenameKey(oldName, newName) ==
    /\ KeyOpFree
    /\ LET x == BeginKeyOp("renameKey", oldName, newName, "none")
           check == renameKeyCheck(oldName, newName)
       IN keyOp' = IF check # "ok" THEN Throw(x, check)
                   ELSE [x EXCEPT !.pc = "loadConfig"]
    /\ UNCHANGED <<keyFrame, keyUsers, requests, configKeys, allKeys, activeKeys>>

StepRenameKey(ok) ==
    /\ keyOp.fn = "renameKey" /\ keyOp.outcome = "running"
    /\ \/ /\ keyOp.pc = "loadConfig"
          /\ keyOp' = IF ok
                      THEN [keyOp EXCEPT !.pc = "saveConfig",
                                !.config = (configKeys \ {keyOp.keyName})
                                           \cup {keyOp.newName}]
                      ELSE Throw(keyOp, "loadConfig failed")
          /\ UNCHANGED <<configKeys, allKeys, activeKeys, keyUsers, requests>>
       \/ /\ keyOp.pc = "saveConfig"
          /\ IF ok
             THEN /\ configKeys' = keyOp.config
                  /\ allKeys' = DeleteKey(SetKey(allKeys, keyOp.newName,
                                                 allKeys[keyOp.keyName]),
                                          keyOp.keyName)
                  /\ activeKeys' = IF keyOp.keyName \in activeKeys
                                   THEN (activeKeys \ {keyOp.keyName})
                                        \cup {keyOp.newName}
                                   ELSE activeKeys
                  /\ keyOp' = [keyOp EXCEPT !.pc = "renameKey"]
             ELSE /\ keyOp' = Throw(keyOp, "saveConfig failed")
                  /\ UNCHANGED <<configKeys, allKeys, activeKeys>>
          /\ UNCHANGED <<keyUsers, requests>>
       \/ /\ keyOp.pc = "renameKey"
          /\ IF ok
             THEN /\ keyUsers' = RenameKeyUsers(keyUsers, keyOp.keyName, keyOp.newName)
                  /\ requests' = RenameRequests(requests, keyOp.keyName, keyOp.newName)
                  /\ keyOp' = Return(keyOp)
             ELSE /\ keyOp' = Throw(keyOp, "transaction failed")
                  /\ UNCHANGED <<keyUsers, requests>>
          /\ UNCHANGED <<configKeys, allKeys, activeKeys>>
    /\ UNCHANGED keyFrame

(* deleteKey(keyName, passphrase), as a call of the vault *)

\* the count appRepository.revokeByKeyName resolves with
RevokedByKeyName(kus, keyName) ==
    Cardinality({ku \in kus : ku.keyName = keyName /\ ku.revokedAt = NoTime})

VaultDeleteKey(keyName, passphrase) ==
    /\ KeyOpFree
    /\ CallDeleteKey(keyName, passphrase)
    /\ LET x == [BeginKeyOp("deleteKey", keyName, "", passphrase)
                    EXCEPT !.revokedApps = RevokedByKeyName(keyUsers, keyName)]
           check == DeleteKeyCheck(keyName, passphrase)
       IN keyOp' = IF check # "ok" THEN Throw([x EXCEPT !.revokedApps = 0], check)
                   ELSE x
    /\ UNCHANGED <<backendVars, requestVars, tokenVars, wire>>

\* `return { revokedApps }` once the memory is updated
VaultStepDeleteKey ==
    /\ keyOp.fn = "deleteKey" /\ keyOp.outcome = "running"
    /\ StepDeleteKey
    /\ keyOp' = IF op'.fn = "idle" THEN Return(keyOp) ELSE keyOp
    /\ UNCHANGED <<backendVars, requestVars, tokenVars, wire>>

\* appRepository.revokeByKeyName, loadConfig or saveConfig rejects
VaultDeleteKeyThrows(keyName, passphrase) ==
    /\ \/ /\ KeyOpFree
          /\ DeleteKeyCheck(keyName, passphrase) = "ok"
          /\ keyOp' = Throw(BeginKeyOp("deleteKey", keyName, "", passphrase),
                            "revokeByKeyName failed")
          /\ UNCHANGED op
       \/ /\ keyOp.fn = "deleteKey" /\ keyOp.outcome = "running"
          /\ keyOp.keyName = keyName /\ keyOp.passphrase = passphrase
          /\ op.fn = "deleteKey" /\ op.pc \in {"loadConfig", "saveConfig"}
          /\ op' = IdleOp
          /\ keyOp' = Throw(keyOp, op.pc)
    /\ UNCHANGED <<now, nextKeyUserId, conditions, aclCache, evals, nEvals, nOps,
                   revokeReturned, revokeFresh, blockReturned, backendVars,
                   tokenVars, requestVars, keyUsers, configKeys, allKeys, activeKeys,
                   wire>>

----------------------------------------------------------------------------
(* RelayService (services/relay-service.ts) and the relays of the NDK pool. *)
(* lastConnected and lastDisconnected are left out: nothing reads them.      *)

RECONNECT_INITIAL_DELAY_MS == 1000
RECONNECT_MAX_DELAY_MS == 30000
RECONNECT_MULTIPLIER == 2

MaxAttempts == 6        \* reconnectAttempts of the first relay
MaxTimers == 5          \* reconnect timeouts armed for the first relay
MaxRelayStarts == 2     \* start() calls of the relay service

Relays == {"r1", "r2"}

\* the second relay is there to be iterated over: it gets few attempts
AttemptBound(url) == IF url = "r1" THEN MaxAttempts ELSE 1
TimerBound(url) == IF url = "r1" THEN MaxTimers ELSE 1

\* relayStatus.get(url) is undefined until start() or an event set it
NoRelayStatus == [known |-> FALSE, connected |-> FALSE, reconnectAttempts |-> 0]

\* `up` is relay.status >= CONNECTED of each relay of ndk.pool
NewRelayService(up) ==
    [isRunning |-> FALSE,
     listeners |-> 0,                               \* start() calls so far
     relayStatus |-> [url \in Relays |-> NoRelayStatus],
     up |-> up,
     connecting |-> {url \in Relays : ~up[url]},    \* relay.connect() in flight
     timers |-> [url \in Relays |-> 0],             \* armed reconnect timeouts
     delay |-> [url \in Relays |-> 0],              \* history: the last delay scheduled
     made |-> [url \in Relays |-> 0],               \* history: connect() calls since connected
     reconnectAll |-> <<>>]                         \* urls reconnectAll() has still to do

RECURSIVE pow(_, _)
\* Math.pow(base, exponent) of small integers
pow(base, exponent) == IF exponent = 0 THEN 1 ELSE base * pow(base, exponent - 1)

min(a, b) == IF a < b THEN a ELSE b

getReconnectDelay(rs, url) ==
    LET attempts == IF rs.relayStatus[url].known
                    THEN rs.relayStatus[url].reconnectAttempts ELSE 0
        delay == RECONNECT_INITIAL_DELAY_MS * pow(RECONNECT_MULTIPLIER, attempts)
    IN min(delay, RECONNECT_MAX_DELAY_MS)

initializeRelayStatus(rs) ==
    [rs EXCEPT !.relayStatus =
        [url \in Relays |-> [known |-> TRUE, connected |-> rs.up[url],
                             reconnectAttempts |-> 0]]]

updateRelayStatus(rs, url, connected) ==
    [rs EXCEPT !.relayStatus[url] =
        [known |-> TRUE, connected |-> connected,
         reconnectAttempts |-> IF connected THEN 0 ELSE @.reconnectAttempts]]

\* reconnectRelay(url) up to its await
reconnectRelay(rs, url) ==
    LET counted == IF rs.relayStatus[url].known
                   THEN [rs EXCEPT !.relayStatus[url].reconnectAttempts = @ + 1]
                   ELSE rs
    IN IF rs.up[url] THEN counted
       ELSE [counted EXCEPT !.connecting = @ \cup {url},
                            !.made[url] = min(@ + 1, MaxAttempts)]

\* reconnectRelay can still count
CanAttempt(url) ==
    relayService.relayStatus[url].reconnectAttempts < AttemptBound(url)

(* start() and stop(); every start() registers the two listeners again *)
RelayStart ==
    /\ ~relayService.isRunning
    /\ relayService.listeners < MaxRelayStarts
    /\ relayService' = initializeRelayStatus(
            [relayService EXCEPT !.isRunning = TRUE, !.listeners = @ + 1])

RelayStop ==
    /\ relayService.isRunning
    /\ relayService' = [relayService EXCEPT !.isRunning = FALSE]

\* a connect() in flight succeeds: the pool emits relay:connect
RelayConnect(url) ==
    /\ url \in relayService.connecting
    /\ ~relayService.up[url]
    /\ LET rs == [relayService EXCEPT !.up[url] = TRUE, !.connecting = @ \ {url},
                                      !.made[url] = 0]
       IN relayService' = IF rs.listeners > 0 THEN updateRelayStatus(rs, url, TRUE)
                          ELSE rs

\* a connect() in flight fails
RelayConnectSettles(url) ==
    /\ url \in relayService.connecting
    /\ relayService' = [relayService EXCEPT !.connecting = @ \ {url}]

\* a connected relay drops: the pool emits relay:disconnect, and each
\* registered listener schedules a reconnect while the service is running
RelayDisconnect(url) ==
    /\ relayService.up[url]
    /\ LET rs == [relayService EXCEPT !.up[url] = FALSE]
           seen == IF rs.listeners > 0 THEN updateRelayStatus(rs, url, FALSE) ELSE rs
       IN IF seen.isRunning
          THEN /\ seen.timers[url] + seen.listeners <= TimerBound(url)
               /\ relayService' =
                    [seen EXCEPT !.timers[url] = @ + seen.listeners,
                                 !.delay[url] = getReconnectDelay(seen, url)]
          ELSE relayService' = seen

\* a reconnect timeout fires
ReconnectTimerFires(url) ==
    /\ relayService.timers[url] > 0
    /\ CanAttempt(url)
    /\ relayService' =
            reconnectRelay([relayService EXCEPT !.timers[url] = @ - 1], url)

\* the relays in the order of ndk.pool.relays
RelayRank(url) == IF url = "r1" THEN 1 ELSE 2

RECURSIVE UrlsInOrder(_)
UrlsInOrder(urls) ==
    IF urls = {} THEN <<>>
    ELSE LET first == CHOOSE u \in urls : \A v \in urls : RelayRank(u) <= RelayRank(v)
         IN <<first>> \o UrlsInOrder(urls \ {first})

RECURSIVE healthCheckLoop(_, _)
\* the first loop of performHealthCheck
healthCheckLoop(rs, todo) ==
    IF todo = <<>> THEN rs
    ELSE LET url == Head(todo)
             status == rs.relayStatus[url]
         IN healthCheckLoop(
                IF status.known /\ status.connected # rs.up[url]
                THEN updateRelayStatus(rs, url, rs.up[url]) ELSE rs,
                Tail(todo))

RECURSIVE reconnectEach(_, _)
\* the loop over `disconnected` of performHealthCheck
reconnectEach(rs, todo) ==
    IF todo = <<>> THEN rs
    ELSE reconnectEach(reconnectRelay(rs, Head(todo)), Tail(todo))

\* the health-check interval fires: performHealthCheck()
PerformHealthCheck ==
    /\ relayService.isRunning
    /\ \A url \in Relays : ~relayService.up[url] => CanAttempt(url)
    /\ LET rs == healthCheckLoop(relayService, UrlsInOrder(Relays))
           disconnected == UrlsInOrder({url \in Relays : ~rs.up[url]})
       IN relayService' = reconnectEach(rs, disconnected)

\* reconnectAll() up to its first await
ReconnectAll ==
    /\ relayService.reconnectAll = <<>>
    /\ LET disconnected ==
            UrlsInOrder({url \in Relays :
                            /\ relayService.relayStatus[url].known
                            /\ ~relayService.relayStatus[url].connected})
       IN /\ disconnected # <<>>
          /\ CanAttempt(Head(disconnected))
          /\ relayService' =
                [reconnectRelay(relayService, Head(disconnected))
                    EXCEPT !.reconnectAll = disconnected]

\* the reconnectRelay that reconnectAll() awaits has ended: it returned, and
\* the loop goes on, or it threw, and reconnectAll() rejects
ReconnectAllResumes(threw) ==
    /\ relayService.reconnectAll # <<>>
    /\ Head(relayService.reconnectAll) \notin relayService.connecting
    /\ threw => ~relayService.up[Head(relayService.reconnectAll)]
    /\ LET rest == IF threw THEN <<>> ELSE Tail(relayService.reconnectAll)
           rs == [relayService EXCEPT !.reconnectAll = rest]
       IN IF rest = <<>> THEN relayService' = rs
          ELSE /\ CanAttempt(Head(rest))
               /\ relayService' = reconnectRelay(rs, Head(rest))

----------------------------------------------------------------------------
(* SubscriptionManager and Nip46Backend.start / stop                        *)
(* (subscription-manager.ts).  Timers are armed flags;                     *)
(* the short timers (initial check, ping timeout, debounce, pause) fire    *)
(* before the next heartbeat.                                               *)

HEARTBEAT_INTERVAL_MS == 60000
SLEEP_DETECTION_THRESHOLD_MS == HEARTBEAT_INTERVAL_MS * 3
PING_TIMEOUT_MS == 10000
RESTART_DEBOUNCE_MS == 2000
RestartPauseMs == 500
InitialCheckDelayMs == 5000

MaxBeats == 2           \* heartbeat ticks
MaxStarts == 2          \* start() calls per backend
MaxPoolSubs == 3        \* subscriptions open in the pool, clients' ones

\* `nip46-${keyName}`
SubscriptionId(keyName) ==
    CASE keyName = "k1" -> "nip46-k1" [] OTHER -> "nip46-"

\* ids of managed subscriptions: a key's backend, another client of the manager
OtherIds == {"s2"}
SubIds == {SubscriptionId("k1")} \cup OtherIds

\* the filter and the handler of a key's backend
Nip46Filter(keyName) == [kinds |-> {24133}, p |-> keyName]
Nip46OnEvent(keyName) == "handleEvent"

OtherFilters == {[kinds |-> {1}, p |-> "f1"], [kinds |-> {1}, p |-> "f2"]}

NoSub == [filter |-> [kinds |-> {}, p |-> ""], onEvent |-> "", cleanup |-> 0]

Managed == {id \in SubIds : subscriptions[id] # NoSub}

NewManager ==
    [isRunning |-> FALSE, lastHeartbeat |-> 0, pendingRestart |-> FALSE,
     heartbeatTimer |-> FALSE, restartDebounceTimer |-> FALSE,
     initialCheck |-> FALSE, ping |-> 0, beats |-> 0,
     \* the probe of pingRelays: its timeout armed, the calls of resolve
     pingTimer |-> FALSE, pingResults |-> <<>>]

NoRestart == [pc |-> "idle", toRestart |-> {}]

NoBackend == [isRunning |-> FALSE, unsubscribe |-> 0, managed |-> FALSE, starts |-> 0]

NoSleepWake ==
    [n |-> 0, subs |-> {}, watching |-> FALSE, closed |-> {},
     created |-> [id \in SubIds |-> 0]]

\* RelayPool.subscribe(filter, onEvent, id) opens a subscription and returns
\* its close function.  poolSubs holds the open ones; a close function is
\* named by a handle, the least one no open subscription has.
FreshHandle(pool) ==
    CHOOSE h \in 1..(Cardinality(pool) + 1) :
        /\ h \notin {ps.h : ps \in pool}
        /\ \A g \in 1..(h - 1) : g \in {ps.h : ps \in pool}

PoolSubscribe(pool, handle, id, filter, onEvent) ==
    pool \cup {[h |-> handle, id |-> id, filter |-> filter, onEvent |-> onEvent]}

\* the close functions `handles` are called
PoolClose(pool, handles) == {ps \in pool : ps.h \notin handles}

\* the pool stays within MaxPoolSubs once a pending restart has resumed
PoolHasRoom ==
    Cardinality(poolSubs) + Cardinality(restart.toRestart) < MaxPoolSubs

\* history: what was closed and opened since a time jump was seen
Track(sw, old, new) ==
    IF ~sw.watching THEN sw
    ELSE [sw EXCEPT
            !.closed = @ \cup {ps.id : ps \in old \ new},
            !.created = [id \in SubIds |->
                LET c == @[id] + Cardinality({ps \in new \ old : ps.id = id})
                IN IF c > 2 THEN 2 ELSE c]]

(* SubscriptionManager.start() / stop() *)
ManagerStart ==
    /\ ~manager.isRunning
    /\ manager' = [manager EXCEPT !.isRunning = TRUE, !.lastHeartbeat = now,
                                  !.heartbeatTimer = TRUE,
                                  !.initialCheck = TRUE]
    /\ UNCHANGED <<now, subscriptions, poolSubs, restart, backends, registered,
                   sleepWake>>

ManagerStop ==
    /\ manager.isRunning
    /\ manager' = [manager EXCEPT !.isRunning = FALSE, !.heartbeatTimer = FALSE,
                                  !.restartDebounceTimer = FALSE]
    /\ UNCHANGED <<now, subscriptions, poolSubs, restart, backends, registered,
                   sleepWake>>

(* SubscriptionManager.unsubscribe(id) and subscribe(id, filter, onEvent), *)
(* on the manager's map and the pool                                        *)
unsubscribe(subs, pool, id) ==
    IF subs[id] # NoSub
    THEN [subscriptions |-> [subs EXCEPT ![id] = NoSub],
          poolSubs |-> PoolClose(pool, {subs[id].cleanup})]
    ELSE [subscriptions |-> subs, poolSubs |-> pool]

\* pool.subscribe and subscriptions.set, without the unsubscribe before them
subscribeKeepingOld(subs, pool, handle, id, filter, onEvent) ==
    [subscriptions |-> [subs EXCEPT ![id] =
                            [filter |-> filter, onEvent |-> onEvent, cleanup |-> handle]],
     poolSubs |-> PoolSubscribe(pool, handle, id, filter, onEvent)]

subscribe(subs, pool, handle, id, filter, onEvent) ==
    LET closed == unsubscribe(subs, pool, id)
    IN subscribeKeepingOld(closed.subscriptions, closed.poolSubs, handle, id,
                           filter, onEvent)

\* a client other than a backend registers a subscription
Subscribe(id, filter, onEvent) ==
    /\ PoolHasRoom
    /\ LET r == subscribe(subscriptions, poolSubs, FreshHandle(poolSubs), id,
                          filter, onEvent)
       IN /\ subscriptions' = r.subscriptions
          /\ poolSubs' = r.poolSubs
    /\ registered' = registered \cup {id}
    /\ sleepWake' = Track(sleepWake, poolSubs, poolSubs')
    /\ UNCHANGED <<now, manager, restart, backends>>

\* the function subscribe returned is called
Unsubscribe(id) ==
    /\ id \in registered
    /\ LET r == unsubscribe(subscriptions, poolSubs, id)
       IN /\ subscriptions' = r.subscriptions
          /\ poolSubs' = r.poolSubs
    /\ registered' = registered \ {id}
    /\ sleepWake' = Track(sleepWake, poolSubs, poolSubs')
    /\ UNCHANGED <<now, manager, restart, backends>>

(* scheduleRestart(reason) *)
scheduleRestart(m) ==
    IF m.pendingRestart THEN m
    ELSE [m EXCEPT !.pendingRestart = TRUE, !.restartDebounceTimer = TRUE]

\* runHealthCheck up to its await: pingRelays opens the throwaway subscription
runHealthCheck(m) ==
    IF Managed = {} THEN m
    ELSE [m EXCEPT !.ping = FreshHandle(poolSubs), !.pingTimer = TRUE,
                   !.pingResults = <<>>]

PingFilter == [kinds |-> {0}, p |-> "ping"]

HealthCheckPool(m) ==
    IF m.ping # 0 /\ m.ping \notin {ps.h : ps \in poolSubs}
    THEN PoolSubscribe(poolSubs, m.ping, "ping", PingFilter, "")
    ELSE poolSubs

\* The timers shorter than the heartbeat interval (debounce, restart pause,
\* initial check, ping timeout) are armed flags: the manager reads the clock
\* in start() and runHeartbeat() only, and `now` is the time of that reading.
ShortTimersFit ==
    /\ RESTART_DEBOUNCE_MS + RestartPauseMs < HEARTBEAT_INTERVAL_MS
    /\ InitialCheckDelayMs + PING_TIMEOUT_MS < HEARTBEAT_INTERVAL_MS

\* no short timer is armed, no ping awaited
ShortTimersDone ==
    /\ ShortTimersFit
    /\ ~manager.restartDebounceTimer
    /\ ~manager.initialCheck
    /\ manager.ping = 0
    /\ restart.pc = "idle"

\* the sleep test of runHeartbeat
sleepDetected(elapsed) == elapsed > SLEEP_DETECTION_THRESHOLD_MS

\* history: a heartbeat saw at least three intervals go by
SleepWakeSeen(sw, elapsed) ==
    IF elapsed >= HEARTBEAT_INTERVAL_MS * 3
    THEN [n |-> 1,
          subs |-> {[id |-> id, filter |-> subscriptions[id].filter,
                     onEvent |-> subscriptions[id].onEvent] : id \in Managed},
          watching |-> TRUE, closed |-> {}, created |-> [id \in SubIds |-> 0]]
    ELSE sw

\* the heartbeat timer fires `passed` ms after the previous tick (or start):
\* runHeartbeat()
RunHeartbeat(passed) ==
    /\ manager.heartbeatTimer
    /\ ShortTimersDone
    /\ manager.beats < MaxBeats
    /\ now' = manager.lastHeartbeat + passed
    /\ LET elapsed == now' - manager.lastHeartbeat
           m == [manager EXCEPT !.lastHeartbeat = now', !.beats = @ + 1]
       IN /\ manager' = IF sleepDetected(elapsed) THEN scheduleRestart(m)
                        ELSE runHealthCheck(m)
          /\ poolSubs' = HealthCheckPool(manager')
          /\ sleepWake' = SleepWakeSeen(sleepWake, elapsed)
    /\ UNCHANGED <<subscriptions, restart, backends, registered>>

\* The machine slept while the debounce timer or the pause of a restart was
\* pending: on wake the overdue interval timer fires before them, and
\* runHeartbeat() sees the time jump.  Ping timeouts and the initial check
\* were due before the interval and have fired.
LateHeartbeat(passed) ==
    /\ manager.heartbeatTimer
    /\ manager.restartDebounceTimer \/ restart.pc = "pause"
    /\ manager.ping = 0 /\ ~manager.initialCheck
    /\ manager.beats < MaxBeats
    /\ sleepDetected(passed)
    /\ now' = manager.lastHeartbeat + passed
    /\ manager' = scheduleRestart([manager EXCEPT !.lastHeartbeat = now',
                                                  !.beats = @ + 1])
    /\ sleepWake' = SleepWakeSeen(sleepWake, passed)
    /\ UNCHANGED <<subscriptions, poolSubs, restart, backends, registered>>

\* the initial health check, 5 s after start()
InitialHealthCheck ==
    /\ manager.initialCheck
    /\ LET m == [manager EXCEPT !.initialCheck = FALSE]
       IN manager' = IF m.isRunning /\ Managed # {} /\ m.ping = 0
                     THEN runHealthCheck(m) ELSE m
    /\ poolSubs' = HealthCheckPool(manager')
    /\ UNCHANGED <<now, subscriptions, restart, backends, registered, sleepWake>>

\* a finish that leaves the probe's subscription open
finishNoCleanup(m, pool, success) ==
    [manager |-> [m EXCEPT !.ping = 0, !.pingTimer = FALSE,
                           !.pingResults = Append(@, success)],
     poolSubs |-> pool]

\* finish(success) of pingRelays: once per probe, it clears the timeout,
\* closes the probe's subscription and resolves
finish(m, pool, success) ==
    IF m.ping = 0
    THEN [manager |-> m, poolSubs |-> pool]
    ELSE [manager |-> [m EXCEPT !.ping = 0, !.pingTimer = FALSE,
                                !.pingResults = Append(@, success)],
          poolSubs |-> PoolClose(pool, {m.ping})]

\* pingRelays resolves: EOSE arrived (healthy) or the ping timeout fired
PingReturn(healthy) ==
    /\ manager.ping # 0
    /\ healthy \/ manager.pingTimer
    /\ LET f == finish(manager, poolSubs, healthy)
       IN /\ poolSubs' = f.poolSubs
          /\ manager' = IF healthy THEN f.manager ELSE scheduleRestart(f.manager)
    /\ UNCHANGED <<now, subscriptions, restart, backends, registered, sleepWake>>

(* doRestartSubscriptions(reason) up to its pause *)
doRestartSubscriptions ==
    IF Managed = {}
    THEN [restart |-> NoRestart, subscriptions |-> subscriptions, poolSubs |-> poolSubs]
    ELSE [restart |-> [pc |-> "pause",
                       toRestart |-> {[id |-> id, filter |-> subscriptions[id].filter,
                                       onEvent |-> subscriptions[id].onEvent] :
                                      id \in Managed}],
          subscriptions |-> [id \in SubIds |-> NoSub],
          poolSubs |-> PoolClose(poolSubs, {subscriptions[id].cleanup : id \in Managed})]

\* the debounce timer fires
RestartTimerFires ==
    /\ manager.restartDebounceTimer
    /\ manager.ping = 0
    /\ restart.pc = "idle"
    /\ manager' = [manager EXCEPT !.restartDebounceTimer = FALSE,
                                  !.pendingRestart = FALSE]
    /\ LET r == doRestartSubscriptions
       IN /\ restart' = r.restart
          /\ subscriptions' = r.subscriptions
          /\ poolSubs' = r.poolSubs
    /\ sleepWake' = Track(sleepWake, poolSubs, poolSubs')
    /\ UNCHANGED <<now, backends, registered>>

\* restartAll(), while no restart is in its pause
RestartAll ==
    /\ restart.pc = "idle"
    /\ Managed # {}
    /\ LET r == doRestartSubscriptions
       IN /\ restart' = r.restart
          /\ subscriptions' = r.subscriptions
          /\ poolSubs' = r.poolSubs
    /\ sleepWake' = Track(sleepWake, poolSubs, poolSubs')
    /\ UNCHANGED <<now, manager, backends, registered>>

\* toRestart as a sequence: the backend's subscription first
IdRank(id) == IF id \in OtherIds THEN 2 ELSE 1

RECURSIVE InOrder(_)
InOrder(subs) ==
    IF subs = {} THEN <<>>
    ELSE LET first == CHOOSE x \in subs : \A y \in subs : IdRank(x.id) <= IdRank(y.id)
         IN <<first>> \o InOrder(subs \ {first})

RECURSIVE Recreate(_, _, _)
\* the loop that recreates the subscriptions of toRestart
Recreate(subs, pool, todo) ==
    IF todo = <<>> THEN [subscriptions |-> subs, poolSubs |-> pool]
    ELSE LET r == subscribeKeepingOld(subs, pool, FreshHandle(pool), Head(todo).id,
                                      Head(todo).filter, Head(todo).onEvent)
         IN Recreate(r.subscriptions, r.poolSubs, Tail(todo))

\* the pause is over: the subscriptions of toRestart are recreated
RestartResume ==
    /\ restart.pc = "pause"
    /\ LET r == Recreate(subscriptions, poolSubs, InOrder(restart.toRestart))
       IN /\ subscriptions' = r.subscriptions
          /\ poolSubs' = r.poolSubs
    /\ restart' = NoRestart
    /\ sleepWake' = [Track(sleepWake, poolSubs, poolSubs') EXCEPT !.watching = FALSE]
    /\ UNCHANGED <<now, manager, backends, registered>>

(* Nip46Backend.start() and stop(), of the backend of keyName *)

\* `if (this.isRunning) return` left out
startNeverIgnored(backend) == FALSE

\* start() returns at once
startIgnored(backend) == backend.isRunning

Start(keyName) ==
    /\ backends[keyName].starts < MaxStarts
    /\ startIgnored(backends[keyName]) \/ PoolHasRoom
    /\ LET b == [backends[keyName] EXCEPT !.starts = @ + 1]
           id == SubscriptionId(keyName)
           handle == FreshHandle(poolSubs)
       IN IF startIgnored(backends[keyName])
          THEN /\ backends' = [backends EXCEPT ![keyName] = b]
               /\ UNCHANGED <<subscriptions, poolSubs, registered>>
          ELSE IF b.managed
          THEN LET r == subscribe(subscriptions, poolSubs, handle, id,
                                  Nip46Filter(keyName), Nip46OnEvent(keyName))
               IN /\ subscriptions' = r.subscriptions
                  /\ poolSubs' = r.poolSubs
                  /\ registered' = registered \cup {id}
                  /\ backends' = [backends EXCEPT ![keyName] =
                        [b EXCEPT !.isRunning = TRUE]]
          ELSE /\ poolSubs' = PoolSubscribe(poolSubs, handle, id,
                                            Nip46Filter(keyName), Nip46OnEvent(keyName))
               /\ backends' = [backends EXCEPT ![keyName] =
                        [b EXCEPT !.isRunning = TRUE, !.unsubscribe = handle]]
               /\ UNCHANGED <<subscriptions, registered>>
    /\ sleepWake' = Track(sleepWake, poolSubs, poolSubs')
    /\ UNCHANGED <<now, manager, restart>>

Stop(keyName) ==
    /\ backends[keyName].isRunning
    /\ LET b == backends[keyName]
           id == SubscriptionId(keyName)
       IN IF b.managed
          THEN LET r == unsubscribe(subscriptions, poolSubs, id)
               IN /\ subscriptions' = r.subscriptions
                  /\ poolSubs' = r.poolSubs
                  /\ registered' = registered \ {id}
          ELSE /\ poolSubs' = PoolClose(poolSubs, {b.unsubscribe})
               /\ UNCHANGED <<subscriptions, registered>>
    /\ backends' = [backends EXCEPT ![keyName] =
                        [@ EXCEPT !.isRunning = FALSE, !.unsubscribe = 0]]
    /\ sleepWake' = Track(sleepWake, poolSubs, poolSubs')
    /\ UNCHANGED <<now, manager, restart>>

(* The activation callback the vault calls with a key that became active:  *)
(* it starts the backend of the key; for a running backend it does nothing *)
OnKeyActivated(keyName) ==
    IF backends[keyName].isRunning
    THEN UNCHANGED <<now, managerVars>>
    ELSE Start(keyName)

\* unlockKey's await of the callback settles
UnlockActivates(ok) ==
    /\ StepUnlockKey(ok)
    /\ IF ok THEN OnKeyActivated(keyOp.keyName) ELSE UNCHANGED managerVars

----------------------------------------------------------------------------
(* The NIP-46 wire format: Nip46Backend's handling of one request, with    *)
(* the content of the events.  A JS object is the sequence of its          *)
(* <<key, value>> pairs in insertion order; a string holding JSON text is  *)
(* [json |-> object], any other text [text |-> ...].                       *)

Has(obj, k) == \E i \in DOMAIN obj : obj[i][1] = k
Get(obj, k) == obj[CHOOSE i \in DOMAIN obj : obj[i][1] = k][2]

\* obj[k] = v: an own key keeps its place, a new one goes last
Put(obj, k, v) ==
    IF Has(obj, k)
    THEN [i \in DOMAIN obj |-> IF obj[i][1] = k THEN <<k, v>> ELSE obj[i]]
    ELSE Append(obj, <<k, v>>)

JSONstringify(obj) == [json |-> obj]
IsJson(text) == "json" \in DOMAIN text
\* JSON.parse(text), for text that is JSON
JSONparse(text) == text.json

\* secret keys: of signing keys, of clients
Nsecs == {"n1", "n2"}
ClientSecrets == {"c1", "c2"}

\* nostr-tools getPublicKey
getPublicKey(secretKey) ==
    CASE secretKey = "n1" -> "N1" [] secretKey = "n2" -> "N2"
      [] secretKey = "c1" -> "C1" [] secretKey = "c2" -> "C2"

\* nip44 getConversationKey(secretKey, pubkey): the secret two key pairs share
getConversationKey(secretKey, pubkey) == {getPublicKey(secretKey), pubkey}

nip44Encrypt(plaintext, conversationKey) ==
    [nip44 |-> plaintext, key |-> conversationKey]

\* nip44Decrypt throws under another key
CanDecrypt(ciphertext, conversationKey) == ciphertext.key = conversationKey
nip44Decrypt(ciphertext, conversationKey) == ciphertext.nip44

\* nostr-tools validateEvent, for the properties it reads
validateEvent(evt) ==
    /\ Has(evt, "kind") /\ Has(evt, "content") /\ Has(evt, "created_at")
    /\ Has(evt, "pubkey") /\ Has(evt, "tags")

\* nostr-tools getEventHash: sha256 of the serialized event
getEventHash(evt) ==
    [sha256 |-> <<0, Get(evt, "pubkey"), Get(evt, "created_at"), Get(evt, "kind"),
                  Get(evt, "tags"), Get(evt, "content")>>]

schnorrSign(id, secretKey) == [msg |-> id, signer |-> getPublicKey(secretKey)]

\* nostr-tools finalizeEvent(t, secretKey); it throws for an event that
\* validateEvent refuses
CanFinalize(t) == validateEvent(Put(t, "pubkey", ""))

finalizeEvent(t, secretKey) ==
    LET withPubkey == Put(t, "pubkey", getPublicKey(secretKey))
        withId == Put(withPubkey, "id", getEventHash(withPubkey))
    IN Put(withId, "sig", schnorrSign(Get(withId, "id"), secretKey))

\* nostr-tools verifyEvent
verifyEvent(event) ==
    /\ validateEvent(event) /\ Has(event, "id") /\ Has(event, "sig")
    /\ Get(event, "id") = getEventHash(event)
    /\ Get(event, "sig") = [msg |-> Get(event, "id"), signer |-> Get(event, "pubkey")]

(* Nip46Backend.handleSignEvent(params) *)
CanSignEvent(params) ==
    /\ Len(params) > 0
    /\ IsJson(params[1])
    /\ CanFinalize(JSONparse(params[1]))

handleSignEvent(params, nsec) ==
    LET unsigned == JSONparse(params[1])
        signed == finalizeEvent(unsigned, nsec)
    IN JSONstringify(signed)

\* the response is encrypted for the backend's own pubkey
sendEncryptedResponseToSelf(nsec, remotePubkey, response, createdAt) ==
    finalizeEvent(<<<<"kind", 24133>>,
                    <<"content", nip44Encrypt(JSONstringify(response),
                        getConversationKey(nsec, getPublicKey(nsec)))>>,
                    <<"tags", <<<<"p", remotePubkey>>>>>>,
                    <<"created_at", createdAt>>>>, nsec)

(* Nip46Backend.sendEncryptedResponse(remotePubkey, response): the event *)
(* handed to pool.publish                                                 *)
sendEncryptedResponse(nsec, remotePubkey, response, createdAt) ==
    LET conversationKey == getConversationKey(nsec, remotePubkey)
        encrypted == nip44Encrypt(JSONstringify(response), conversationKey)
    IN finalizeEvent(<<<<"kind", 24133>>,
                       <<"content", encrypted>>,
                       <<"tags", <<<<"p", remotePubkey>>>>>>,
                       <<"created_at", createdAt>>>>, nsec)

\* sendResponse / sendError
sendResponse(nsec, id, remotePubkey, result, createdAt) ==
    sendEncryptedResponse(nsec, remotePubkey,
                          <<<<"id", id>>, <<"result", result>>>>, createdAt)

sendError(nsec, id, remotePubkey, error, createdAt) ==
    sendEncryptedResponse(nsec, remotePubkey,
                          <<<<"id", id>>, <<"result", [text |-> "error"]>>,
                            <<"error", error>>>>, createdAt)

\* Math.floor(Date.now() / 1000)
UnixTime(t) == t \div 1000

NoWire ==
    [pc |-> "none", nsec |-> "", client |-> "", id |-> "", params |-> <<>>,
     tampered |-> FALSE, request |-> <<>>, remotePubkey |-> "",
     permitted |-> FALSE, out |-> <<>>]

\* a client sends a sign_event request to the key's pubkey
ClientSendsRequest ==
    /\ wire.pc = "new"
    /\ LET request == <<<<"id", wire.id>>, <<"method", "sign_event">>,
                        <<"params", wire.params>>>>
           key == getConversationKey(wire.client, getPublicKey(wire.nsec))
           event == finalizeEvent(
                        <<<<"kind", 24133>>,
                          <<"content", nip44Encrypt(JSONstringify(request), key)>>,
                          <<"tags", <<<<"p", getPublicKey(wire.nsec)>>>>>>,
                          <<"created_at", UnixTime(now)>>>>, wire.client)
       IN wire' = [wire EXCEPT
                      !.pc = "sent",
                      \* in transit the created_at of the event may be altered
                      !.request = IF wire.tampered
                                  THEN Put(event, "created_at", UnixTime(now) + 1)
                                  ELSE event]
    /\ UNCHANGED <<aclVars, backendVars, requestVars, tokenVars, keyOp, managerVars>>

\* handleEvent up to the permit callback
WireHandleEvent ==
    /\ wire.pc = "sent"
    /\ LET event == wire.request
           key == getConversationKey(wire.nsec, Get(event, "pubkey"))
       IN IF ~verifyEvent(event) \/ ~CanDecrypt(Get(event, "content"), key)
             \/ ~IsJson(nip44Decrypt(Get(event, "content"), key))
          THEN wire' = [wire EXCEPT !.pc = "done"]
          ELSE wire' = [wire EXCEPT !.pc = "permit",
                                    !.remotePubkey = Get(event, "pubkey")]
    /\ UNCHANGED <<aclVars, backendVars, requestVars, tokenVars, keyOp, managerVars>>

\* the permit callback returns: handleMethod, then sendResponse / sendError
\* up to pool.publish
WirePermitReturn(permitted) ==
    /\ wire.pc = "permit"
    /\ LET event == wire.request
           key == getConversationKey(wire.nsec, Get(event, "pubkey"))
           request == JSONparse(nip44Decrypt(Get(event, "content"), key))
           id == Get(request, "id")
           params == Get(request, "params")
           response ==
                IF ~permitted
                THEN sendError(wire.nsec, id, wire.remotePubkey,
                               [text |-> "Not authorized"], UnixTime(now))
                ELSE IF Len(params) = 0
                THEN sendError(wire.nsec, id, wire.remotePubkey,
                               [text |-> "Missing event to sign"], UnixTime(now))
                ELSE IF ~CanSignEvent(params)
                THEN sendError(wire.nsec, id, wire.remotePubkey,
                               [text |-> "cannot sign"], UnixTime(now))
                ELSE sendResponse(wire.nsec, id, wire.remotePubkey,
                                  handleSignEvent(params, wire.nsec), UnixTime(now))
       IN wire' = [wire EXCEPT !.pc = "publish", !.permitted = permitted,
                               !.out = <<response>>]
    /\ UNCHANGED <<aclVars, backendVars, requestVars, tokenVars, keyOp, managerVars>>

\* pool.publish resolves
WirePublishReturn ==
    /\ wire.pc = "publish"
    /\ wire' = [wire EXCEPT !.pc = "done"]
    /\ UNCHANGED <<aclVars, backendVars, requestVars, tokenVars, keyOp, managerVars>>

----------------------------------------------------------------------------
(* The ACL specification: evaluations of a few representative requests     *)
(* interleaved with the mutating operations.                               *)

StoredKeys == {[k \in Keys |-> [encrypted |-> enc]] : enc \in BOOLEAN}

\* nothing in flight outside the ACL: no backend traffic, no parked
\* requests, no tokens
InitNoBackend ==
    /\ adminSecret = NoSecret
    /\ handling = [h \in Handlers |-> IdleHandling]
    /\ published = <<>>

InitNoRequests ==
    /\ requests = [id \in RequestIds |-> NoRequest]
    /\ batches = [b \in BatchSlots |-> IdleBatch]
    /\ deciders = [d \in DeciderSlots |-> IdleDecider]
    /\ emitted = <<>>

\* the relay service is not started, every relay of the pool is connected
InitNoSide ==
    /\ relayService = NewRelayService([url \in Relays |-> TRUE])
    /\ cacheUse = NoCacheUse

InitNoTokens ==
    /\ tokens = [t \in Tokens |-> NoToken]
    /\ redeems = [r \in Redeemers |-> IdleRedeem]
    /\ policyToken = NewPolicyToken("", NoTime)
    /\ applies = [a \in Appliers |-> IdleApply]
    /\ http = NoReply
    /\ InitNoSide

InitNoManager ==
    /\ manager = NewManager
    /\ subscriptions = [id \in SubIds |-> NoSub]
    /\ poolSubs = {}
    /\ restart = NoRestart
    /\ backends = [k \in Keys |-> NoBackend]
    /\ registered = {}
    /\ sleepWake = NoSleepWake

InitNoExt == keyOp = IdleKeyOp /\ InitNoManager /\ wire = NoWire

InitNonAcl == InitNoBackend /\ InitNoRequests /\ InitNoTokens /\ InitNoExt

InitAclVars ==
    /\ now = 0
    /\ keyUsers = {}
    /\ nextKeyUserId = 1
    /\ conditions = EmptyBag
    /\ aclCache = <<>>
    /\ evals = [e \in EvalSlots |-> IdleEval]
    /\ op = IdleOp
    /\ nEvals = 0
    /\ nOps = 0
    /\ revokeReturned = {}
    /\ revokeFresh = {}
    /\ blockReturned = {}
    /\ allKeys \in StoredKeys
    /\ configKeys = Keys
    /\ activeKeys = {k \in Keys : ~allKeys[k].encrypted}

InitAcl == InitAclVars /\ InitNonAcl

\* <<method, payload>> of the requests evaluated under SpecAcl
AclRequests ==
    { <<"ping", NoPayload>>, <<"encrypt", NoPayload>>,
      <<"sign_event", EventPayload(1)>> }

AppIds == 1..2

NextAcl ==
    \/ \E e \in EvalSlots, k \in Keys, p \in Pubkeys, r \in AclRequests :
            StartEval(e, k, p, r[1], r[2]) /\ UNCHANGED nonAclVars
    \/ \E e \in EvalSlots : EvalFindKeyUser(e) /\ UNCHANGED nonAclVars
    \/ \E e \in EvalSlots : EvalFindDeny(e) /\ UNCHANGED nonAclVars
    \/ \E e \in EvalSlots : EvalFindCondition(e) /\ UNCHANGED nonAclVars
    \/ \E e \in EvalSlots : EvalReturn(e) /\ UNCHANGED nonAclVars
    \/ \E k \in Keys, p \in Pubkeys, m \in GrantMethods, kind \in ScopeKinds :
            CallPermitAllRequests(p, k, m, kind) /\ UNCHANGED nonAclVars
    \/ StepPermitAllRequests /\ UNCHANGED nonAclVars
    \/ \E k \in Keys, p \in Pubkeys : CallBlockAllRequests(p, k) /\ UNCHANGED nonAclVars
    \/ StepBlockAllRequests /\ UNCHANGED nonAclVars
    \/ \E k \in Keys, p \in Pubkeys, t \in TrustLevels :
            CallGrantPermissionsByTrustLevel(p, k, t) /\ UNCHANGED nonAclVars
    \/ StepGrantPermissionsByTrustLevel /\ UNCHANGED nonAclVars
    \/ \E id \in AppIds, t \in TrustLevels : CallUpdateTrustLevel(id, t) /\ UNCHANGED nonAclVars
    \/ StepUpdateTrustLevel /\ UNCHANGED nonAclVars
    \/ \E k \in Keys, p \in Pubkeys : CallCreateKeyUserForConnect(p, k) /\ UNCHANGED nonAclVars
    \/ StepCreateKeyUserForConnect /\ UNCHANGED nonAclVars
    \/ \E id \in AppIds : CallRevokeApp(id) /\ UNCHANGED nonAclVars
    \/ StepRevokeApp /\ UNCHANGED nonAclVars
    \/ \E k \in Keys, pass \in Passphrases : CallDeleteKey(k, pass) /\ UNCHANGED nonAclVars
    \/ StepDeleteKey /\ UNCHANGED nonAclVars
    \/ \E id \in AppIds, indefinite \in BOOLEAN : SuspendApp(id, indefinite) /\ UNCHANGED nonAclVars
    \/ \E id \in AppIds : UnsuspendApp(id) /\ UNCHANGED nonAclVars
    \/ Advance(TickMs) /\ UNCHANGED nonAclVars

SpecAcl == InitAcl /\ [][NextAcl]_vars

----------------------------------------------------------------------------
(* The trust-level specification: one evaluation at a time of every kind   *)
(* of request, against KeyUsers of every trust level.                      *)

\* <<method, payload>> of the requests evaluated under SpecTrust
TrustRequests ==
    { <<m, NoPayload>> : m \in {"connect", "ping", "encrypt", "decrypt",
                                "get_public_key"} }
    \cup { <<"sign_event", pl>> :
            pl \in {NoPayload, BadPayload, KindlessPayload}
                   \cup {EventPayload(k) : k \in {1, 0, 9999}} }

\* <<method, kind>> of the permissions granted under SpecTrust
TrustGrants ==
    { <<"sign_event", KindAll>>, <<"sign_event", NumberToString(1)>>,
      <<"ping", KindNull>> }

\* Bounds of SpecTrust: evaluations started, mutating operations called
MaxTrustEvals == 2
MaxTrustOps == 2
MaxConditionOps == 1

NextTrust ==
    \/ \E e \in EvalSlots, k \in Keys, p \in Pubkeys, r \in TrustRequests :
            nEvals < MaxTrustEvals /\ StartEval(e, k, p, r[1], r[2]) /\ UNCHANGED nonAclVars
    \/ \E e \in EvalSlots : EvalFindKeyUser(e) /\ UNCHANGED nonAclVars
    \/ \E e \in EvalSlots : EvalFindDeny(e) /\ UNCHANGED nonAclVars
    \/ \E e \in EvalSlots : EvalFindCondition(e) /\ UNCHANGED nonAclVars
    \/ \E e \in EvalSlots : EvalReturn(e) /\ UNCHANGED nonAclVars
    \/ \E k \in Keys, p \in Pubkeys, g \in TrustGrants :
            nOps < MaxTrustOps /\ CallPermitAllRequests(p, k, g[1], g[2]) /\ UNCHANGED nonAclVars
    \/ StepPermitAllRequests /\ UNCHANGED nonAclVars
    \/ \E k \in Keys, p \in Pubkeys :
            nOps < MaxTrustOps /\ CallBlockAllRequests(p, k) /\ UNCHANGED nonAclVars
    \/ StepBlockAllRequests /\ UNCHANGED nonAclVars
    \/ \E k \in Keys, p \in Pubkeys, t \in TrustLevels :
            nOps < MaxTrustOps /\ CallGrantPermissionsByTrustLevel(p, k, t) /\ UNCHANGED nonAclVars
    \/ StepGrantPermissionsByTrustLevel /\ UNCHANGED nonAclVars
    \/ \E id \in AppIds, t \in TrustLevels :
            nOps < MaxTrustOps /\ CallUpdateTrustLevel(id, t) /\ UNCHANGED nonAclVars
    \/ StepUpdateTrustLevel /\ UNCHANGED nonAclVars

\* every key stored in the clear
InitTrust == InitAcl /\ activeKeys = Keys

SpecTrust == InitTrust /\ [][NextTrust]_vars

----------------------------------------------------------------------------
(* The backend specification: requests arrive at the backend of BackendKey *)

AdminSecrets == {NoSecret, Secret(<<"A", "b", " ">>)}

ProvidedSecrets ==
    {NoSecret, Secret(<<>>), Secret(<<" ">>), Secret(<<"a", "b">>),
     Secret(<<" ", "A", "B", " ">>), Secret(<<"a", "c">>), Secret(<<"a">>),
     Secret(<<"a", "U+00E9">>)}

\* <<sigOk, decryptOk, method, secret, paramsOk>> of the events received
BackendEvents ==
    {<<FALSE, TRUE, "ping", NoSecret, TRUE>>, <<TRUE, FALSE, "ping", NoSecret, TRUE>>}
    \cup {<<TRUE, TRUE, "connect", s, TRUE>> : s \in ProvidedSecrets}
    \cup {<<TRUE, TRUE, m, NoSecret, ok>> :
            m \in Nip46Methods \ {"connect"}, ok \in BOOLEAN}

InitBackend ==
    /\ InitAclVars
    /\ activeKeys = Keys
    /\ adminSecret \in AdminSecrets
    /\ handling = [h \in Handlers |-> IdleHandling]
    /\ published = <<>>
    /\ InitNoRequests
    /\ InitNoTokens
    /\ InitNoExt

NextBackend ==
    \/ \E h \in Handlers, p \in Pubkeys, ev \in BackendEvents :
            HandleEvent(h, p, ev[1], ev[2], ev[3], ev[4], ev[5]) /\ UNCHANGED extVars
    \/ \E h \in Handlers, outcome \in PermitOutcomes : PermitReturn(h, outcome) /\ UNCHANGED extVars
    \/ \E h \in Handlers : CreateKeyUserReturn(h) /\ UNCHANGED extVars
    \/ \E h \in Handlers, ok \in BOOLEAN : PublishReturn(h, ok) /\ UNCHANGED extVars
    \/ StepCreateKeyUserForConnect /\ UNCHANGED nonAclVars

SpecBackend == InitBackend /\ [][NextBackend]_vars

----------------------------------------------------------------------------
(* The inbound specification: events arrive at a key's backend, which is   *)
(* a Nip46Backend or a BunkerBackend; parked requests expire                *)

NextInbound ==
    \/ NextBackend
    \/ \E h \in Handlers : PermitExpire(h) /\ UNCHANGED extVars
    \/ \E h \in Handlers, p \in Pubkeys, ev \in BackendEvents :
            BunkerHandleIncomingEvent(h, p, ev[1], ev[2], ev[3], ev[4]) /\ UNCHANGED extVars
    \/ \E h \in Handlers, hasStrategy \in BOOLEAN : BunkerParsed(h, hasStrategy) /\ UNCHANGED extVars
    \/ \E h \in Handlers, outcome \in StrategyOutcomes : BunkerStrategyReturn(h, outcome) /\ UNCHANGED extVars
    \/ \E h \in Handlers : BunkerCreateKeyUserReturn(h) /\ UNCHANGED extVars
    \/ \E h \in Handlers, ok \in BOOLEAN : BunkerPublishReturn(h, ok) /\ UNCHANGED extVars
    \/ Advance(REQUEST_EXPIRY_MS) /\ UNCHANGED nonAclVars

SpecInbound == InitBackend /\ [][NextInbound]_vars

----------------------------------------------------------------------------
(* The requests specification: parked requests are approved in batches,    *)
(* approved or denied one by one, and expire                                *)

RECURSIVE SeqsUpTo(_, _)
SeqsUpTo(S, n) ==
    IF n = 0 THEN {<<>>}
    ELSE SeqsUpTo(S, n - 1)
         \cup {Append(s, x) : s \in {t \in SeqsUpTo(S, n - 1) : Len(t) = n - 1}, x \in S}

\* body.trustLevel of the batches: left out, so 'reasonable'
BatchTrustLevels == {DEFAULT_TRUST_LEVEL}

\* the method of each request that gets parked
ParkedMethods == {"connect", "sign_event"}

\* the params column of a parked request: for sign_event the event to sign
ParkedParams(method) ==
    IF method = "sign_event" THEN EventPayload(4) ELSE NoPayload

InitRequests == InitAclVars /\ activeKeys = Keys /\ InitNonAcl

NextRequests ==
    \/ \E id \in RequestIds, k \in Keys, p \in Pubkeys, m \in ParkedMethods :
            CreateRequest(id, k, p, m, ParkedParams(m)) /\ UNCHANGED extVars
    \/ CleanupExpired /\ UNCHANGED extVars
    \/ \E b \in BatchSlots, ids \in SeqsUpTo(RequestIds, MaxBatchIds),
          t \in BatchTrustLevels, always \in BOOLEAN :
            BatchStart(b, ids, t, always) /\ UNCHANGED extVars
    \/ \E b \in BatchSlots : BatchFind(b) /\ UNCHANGED extVars
    \/ \E b \in BatchSlots : BatchUpdate(b) /\ UNCHANGED extVars
    \/ \E b \in BatchSlots : BatchGrant(b) /\ UNCHANGED extVars
    \/ \E b \in BatchSlots : BatchLog(b) /\ UNCHANGED extVars
    \/ \E d \in DeciderSlots, id \in RequestIds, decision \in {"approve", "deny"} :
            DecideStart(d, id, decision) /\ UNCHANGED extVars
    \/ \E d \in DeciderSlots : DecideFind(d) /\ UNCHANGED extVars
    \/ \E d \in DeciderSlots : DecideUpdate(d) /\ UNCHANGED extVars
    \/ \E d \in DeciderSlots : DecideReturn(d) /\ UNCHANGED extVars
    \/ StepGrantPermissionsByTrustLevel /\ UNCHANGED nonAclVars
    \/ StepPermitAllRequests /\ UNCHANGED nonAclVars
    \/ Advance(REQUEST_EXPIRY_MS) /\ UNCHANGED nonAclVars

SpecRequests == InitRequests /\ [][NextRequests]_vars

----------------------------------------------------------------------------
(* The token specification: concurrent redemptions of connection tokens    *)

InitToken == InitAclVars /\ activeKeys = Keys /\ InitNonAcl

NextToken ==
    \/ \E t \in Tokens, k \in Keys : CreateToken(t, k) /\ UNCHANGED extVars
    \/ \E r \in Redeemers, t \in Tokens, k \in Keys \cup {"k2"} :
            RedeemCall(r, t, k) /\ UNCHANGED extVars
    \/ \E r \in Redeemers : RedeemUpdate(r) /\ UNCHANGED extVars
    \/ \E r \in Redeemers : RedeemReturn(r) /\ UNCHANGED extVars
    \/ CleanupExpiredTokens /\ UNCHANGED extVars
    \/ Advance(TokenExpiryMs) /\ UNCHANGED nonAclVars

SpecToken == InitToken /\ [][NextToken]_vars

----------------------------------------------------------------------------
(* The vault specification: calls of the KeyService one after the other,   *)
(* on a database that holds the KeyUsers of earlier connections.           *)

\* the apps connected to k1 earlier
ConnectedApps ==
    { {}, {NewKeyUser(1, "k1", "p1", DEFAULT_TRUST_LEVEL)},
      {NewKeyUser(1, "k1", "p1", DEFAULT_TRUST_LEVEL),
       NewKeyUser(2, "k1", "p2", "full")} }

InitKeys ==
    /\ now = 0
    /\ keyUsers \in ConnectedApps
    /\ nextKeyUserId = Cardinality(keyUsers) + 1
    /\ conditions = EmptyBag
    /\ aclCache = <<>>
    /\ evals = [e \in EvalSlots |-> IdleEval]
    /\ op = IdleOp
    /\ nEvals = 0
    /\ nOps = 0
    /\ revokeReturned = {}
    /\ revokeFresh = {}
    /\ blockReturned = {}
    /\ allKeys \in StoredKeys
    /\ configKeys = Keys
    /\ activeKeys \in {{k \in Keys : ~allKeys[k].encrypted}, Keys}
    /\ InitNonAcl

\* passphrases a key is created or encrypted with
NewPassphrases == {"none", "good"}

NextKeys ==
    \/ \E k \in KeyNames, pass \in NewPassphrases, nsecOk \in BOOLEAN :
            CallCreateKey(k, pass, nsecOk) /\ UNCHANGED managerVars
    \/ \E ok \in BOOLEAN : StepCreateKey(ok) /\ UNCHANGED managerVars
    \/ \E k \in KeyNames, pass \in Passphrases : CallUnlockKey(k, pass) /\ UNCHANGED managerVars
    \/ \E ok \in BOOLEAN : StepUnlockKey(ok) /\ UNCHANGED managerVars
    \/ \E k \in KeyNames, pass \in NewPassphrases : CallSetPassphrase(k, pass) /\ UNCHANGED managerVars
    \/ \E ok \in BOOLEAN : StepSetPassphrase(ok) /\ UNCHANGED managerVars
    \/ \E old \in KeyNames, new \in KeyNames : CallRenameKey(old, new) /\ UNCHANGED managerVars
    \/ \E ok \in BOOLEAN : StepRenameKey(ok) /\ UNCHANGED managerVars
    \/ \E k \in KeyNames, pass \in Passphrases : VaultDeleteKey(k, pass) /\ UNCHANGED managerVars
    \/ VaultStepDeleteKey /\ UNCHANGED managerVars
    \/ \E k \in KeyNames, pass \in Passphrases : VaultDeleteKeyThrows(k, pass) /\ UNCHANGED managerVars

SpecKeys == InitKeys /\ [][NextKeys]_vars

----------------------------------------------------------------------------
(* The manager specification: the subscription manager with the backend of *)
(* k1 and one other client, heartbeats with and without time jumps          *)

\* ms between two heartbeat ticks: the interval, or the interval and a sleep
BeatGaps ==
    {HEARTBEAT_INTERVAL_MS, HEARTBEAT_INTERVAL_MS * 3, HEARTBEAT_INTERVAL_MS * 4}

\* the backend of k1 is not started yet, with or without a manager
InitActivation ==
    /\ InitAclVars
    /\ InitNoBackend /\ InitNoRequests /\ InitNoTokens
    /\ keyOp = IdleKeyOp
    /\ wire = NoWire
    /\ manager = NewManager
    /\ subscriptions = [id \in SubIds |-> NoSub]
    /\ poolSubs = {}
    /\ restart = NoRestart
    /\ backends \in {[k \in Keys |-> [NoBackend EXCEPT !.managed = m]] : m \in BOOLEAN}
    /\ registered = {}
    /\ sleepWake = NoSleepWake

\* the state after start() of the backend of k1, given a manager
StartedBackend ==
    [k \in Keys |-> [isRunning |-> TRUE, unsubscribe |-> 0, managed |-> TRUE,
                     starts |-> 1]]

StartedSubscriptions ==
    [id \in SubIds |->
        IF id = SubscriptionId("k1")
        THEN [filter |-> Nip46Filter("k1"), onEvent |-> Nip46OnEvent("k1"),
              cleanup |-> 1]
        ELSE NoSub]

InitManager ==
    /\ InitAclVars
    /\ InitNoBackend /\ InitNoRequests /\ InitNoTokens
    /\ keyOp = IdleKeyOp
    /\ wire = NoWire
    /\ manager = NewManager
    /\ subscriptions = StartedSubscriptions
    /\ poolSubs = PoolSubscribe({}, 1, SubscriptionId("k1"), Nip46Filter("k1"),
                                Nip46OnEvent("k1"))
    /\ restart = NoRestart
    /\ backends = StartedBackend
    /\ registered = {SubscriptionId("k1")}
    /\ sleepWake = NoSleepWake

\* what the manager's actions leave alone
managerFrame ==
    <<keyUsers, nextKeyUserId, conditions, aclCache, evals, op, nEvals, nOps,
      revokeReturned, revokeFresh, blockReturned, allKeys, configKeys, activeKeys,
      backendVars, requestVars, tokenVars, keyOp, wire>>

NextManager ==
    \/ ManagerStart /\ UNCHANGED managerFrame
    \/ ManagerStop /\ UNCHANGED managerFrame
    \/ \E id \in OtherIds, f \in OtherFilters :
            Subscribe(id, f, "onEvent") /\ UNCHANGED managerFrame
    \/ \E id \in OtherIds : Unsubscribe(id) /\ UNCHANGED managerFrame
    \/ \E passed \in BeatGaps : RunHeartbeat(passed) /\ UNCHANGED managerFrame
    \/ InitialHealthCheck /\ UNCHANGED managerFrame
    \/ \E healthy \in BOOLEAN : PingReturn(healthy) /\ UNCHANGED managerFrame
    \/ RestartTimerFires /\ UNCHANGED managerFrame
    \/ RestartAll /\ UNCHANGED managerFrame
    \/ RestartResume /\ UNCHANGED managerFrame

SpecManager == InitManager /\ [][NextManager]_vars

----------------------------------------------------------------------------
(* The wire specification: one sign_event request of a client to a key,   *)
(* over every template and pair of keys                                    *)

\* the event templates clients ask to have signed: the four fields, with
\* and without a pubkey, id and sig of their own, and one without tags
Templates ==
    {<<<<"kind", kind>>, <<"content", content>>, <<"tags", tags>>,
       <<"created_at", 7>>>> \o extra :
        kind \in {1, 4}, content \in {"gm", ""},
        tags \in {<<>>, <<<<"p", "C2">>>>},
        extra \in {<<>>, <<<<"pubkey", "C1">>>>,
                   <<<<"id", [sha256 |-> <<>>]>>,
                     <<"sig", [msg |-> [sha256 |-> <<>>], signer |-> "C1"]>>>>}}
    \cup {<<<<"kind", 1>>, <<"content", "gm">>, <<"created_at", 7>>>>}

SignParams ==
    {<<JSONstringify(t)>> : t \in Templates} \cup {<<>>, <<[text |-> "gm"]>>}

InitWire ==
    /\ InitAclVars
    /\ InitNoBackend /\ InitNoRequests /\ InitNoTokens
    /\ keyOp = IdleKeyOp
    /\ InitNoManager
    /\ wire \in {[NoWire EXCEPT !.pc = "new", !.nsec = nsec, !.client = client,
                                !.id = id, !.params = params, !.tampered = tampered] :
                    nsec \in Nsecs, client \in ClientSecrets, id \in {"r1", "r2"},
                    params \in SignParams, tampered \in BOOLEAN}

NextWire ==
    \/ ClientSendsRequest
    \/ WireHandleEvent
    \/ \E permitted \in BOOLEAN : WirePermitReturn(permitted)
    \/ WirePublishReturn

SpecWire == InitWire /\ [][NextWire]_vars

----------------------------------------------------------------------------
(* The activation specification: the backend of k1 is started, stopped and *)
(* activated by unlockKey, next to another client of the manager and        *)
(* manual restarts                                                          *)

NextActivation ==
    \/ \E k \in Keys : Start(k) /\ UNCHANGED managerFrame
    \/ \E k \in Keys : Stop(k) /\ UNCHANGED managerFrame
    \/ \E k \in Keys, pass \in Passphrases :
            CallUnlockKey(k, pass) /\ UNCHANGED managerVars
    \/ \E ok \in BOOLEAN : UnlockActivates(ok)
    \/ \E id \in OtherIds, f \in OtherFilters :
            Subscribe(id, f, "onEvent") /\ UNCHANGED managerFrame
    \/ \E id \in OtherIds : Unsubscribe(id) /\ UNCHANGED managerFrame
    \/ RestartAll /\ UNCHANGED managerFrame
    \/ RestartResume /\ UNCHANGED managerFrame

SpecActivation == InitActivation /\ [][NextActivation]_vars

----------------------------------------------------------------------------
(* Claims about the ACL evaluator *)

Finished(e) == evals[e].pc = "done"

\* C2: after a revoke of a KeyUser has returned (the mass revoke of
\* deleteKey included), the very next isRequestPermitted call for that
\* (key-name, remote pubkey) returns Denied, whatever the cache held.
C2_NextCallAfterRevokeDenied ==
    \A e \in EvalSlots :
        Finished(e) /\ evals[e].firstAfterRevoke => evals[e].result = "Denied"

\* The decision C7 states for a request no explicit condition matches.
TrustDefault(trustLevel, method, payload) ==
    CASE trustLevel = "paranoid" -> "Undecided"
      [] trustLevel = "full" -> "Permitted"
      [] trustLevel = "reasonable" ->
            IF \/ method \in {"ping", "connect"}
               \/ /\ method = "sign_event"
                  /\ payload.form = "event" /\ payload.hasKind
                  /\ payload.kind \in {1, 6, 7, 16, 1111, 30023, 30024, 1808,
                                       9735, 10000, 10001, 30000, 30001, 24242}
                  /\ payload.kind \notin {0, 3, 4, 5, 10002, 22242, 24133,
                                          13194, 23194, 23195}
            THEN "Permitted" ELSE "Undecided"

\* An evaluation that loaded a non-revoked KeyUser without a global deny
\* and found no explicit condition for the request.
DecidedByTrust(e) ==
    Finished(e) /\ evals[e].trustLevel # "" /\ evals[e].condition = {}

\* C7: for a non-revoked KeyUser with no matching explicit SigningCondition
\* the result is exactly the trust-level default: paranoid -> Undecided,
\* full -> Permitted, reasonable -> Permitted iff ping, connect, or
\* sign_event of a SAFE, non-SENSITIVE kind, and Undecided otherwise.
C7_TrustLevelDefault ==
    \A e \in EvalSlots :
        DecidedByTrust(e) =>
            /\ evals[e].trustLevel \in TrustLevels
            /\ evals[e].result =
                 TrustDefault(evals[e].trustLevel, evals[e].method, evals[e].payload)

C7_Witness ==
    \E e \in EvalSlots :
        /\ DecidedByTrust(e)
        /\ evals[e].trustLevel = "reasonable"
        /\ evals[e].method = "sign_event"
        /\ evals[e].payload = EventPayload(9999)
        /\ evals[e].result = "Undecided"

\* C8: while a KeyUser's suspension is in force (suspended-at set and
\* suspend-until null or in the future), isRequestPermitted returns Denied
\* for every method, whatever the trust level and the allow conditions.
C8_SuspendedIsDenied ==
    \A e \in EvalSlots :
        ( /\ Finished(e)
          /\ evals[e].suspendedAtStart
          /\ \E ku \in KeyUserOf(evals[e].keyName, evals[e].remotePubkey) :
                SuspensionActive(ku, now) )
        => evals[e].result = "Denied"

\* C9: once a KeyUser has a SigningCondition with method '*' and
\* allow=false, every evaluation for it returns Denied: an evaluation
\* started after blockAllRequests returned is Denied whatever the cache held.
C9_BlockedIsDenied ==
    \A e \in EvalSlots :
        Finished(e) /\ evals[e].afterBlock => evals[e].result = "Denied"

\* C10: revocation is permanent: a KeyUser whose revoke has returned stays
\* revoked, it is the only KeyUser of its (key-name, remote pubkey), and
\* every later request of that pubkey for that key is Denied.
C10_RevocationPermanent ==
    /\ \A pair \in revokeReturned :
        /\ Cardinality(KeyUserOf(pair[1], pair[2])) = 1
        /\ \A ku \in KeyUserOf(pair[1], pair[2]) : ku.revokedAt # NoTime
    /\ \A e \in EvalSlots :
        Finished(e) /\ evals[e].afterRevoke => evals[e].result = "Denied"

\* the part of C10 about the table alone
RevokedStaysRevoked ==
    \A pair \in revokeReturned :
        /\ Cardinality(KeyUserOf(pair[1], pair[2])) = 1
        /\ \A ku \in KeyUserOf(pair[1], pair[2]) : ku.revokedAt # NoTime

\* the operations C12 names: they mutate a KeyUser or its SigningConditions
MutatingFns ==
    {"permitAllRequests", "blockAllRequests", "grantPermissionsByTrustLevel",
     "updateTrustLevel", "createKeyUserForConnect"}

\* the evaluation in slot e starts in this step
Starts(e) == evals[e].pc = "idle" /\ evals'[e].pc # "idle"

\* the cached entry of the pair agrees with the tables on what it caches
\* of a mutation: the trust level and the global deny
CacheAgrees(keyName, remotePubkey) ==
    LET cached == CacheGet(aclCache, keyName, remotePubkey)
    IN \A ku \in KeyUserOf(keyName, remotePubkey) :
            /\ cached.keyUser.trustLevel = ku.trustLevel
            /\ cached.hasExplicitDeny = (ExplicitDenyRows(ku.id) # {})

\* C12: a cached entry decides only while its age is at most 30 s (an
\* older one is discarded and the KeyUser re-read); every operation that
\* mutates a KeyUser or its conditions has removed the pair's entry by the
\* time it returns, so the next evaluation reads the mutated state.
C12_CacheTtlAndInvalidation ==
    [][ /\ \A e \in EvalSlots :
            Starts(e) =>
                LET k == evals'[e].keyName
                    p == evals'[e].remotePubkey
                IN /\ evals'[e].fromCache =>
                        /\ CacheHas(aclCache, k, p)
                        /\ now - CacheGet(aclCache, k, p).timestamp <= ACL_CACHE_TTL_MS
                   /\ (CacheHas(aclCache, k, p) /\ ~evals'[e].fromCache) =>
                        /\ ~CacheHas(aclCache', k, p)
                        /\ evals'[e].pc = "findKeyUser"
                   /\ (evals'[e].fromCache /\ OpIdle) => CacheAgrees(k, p)
        /\ (op.fn \in MutatingFns /\ op'.fn = "idle") =>
                ~CacheHas(aclCache', op.keyName, op.remotePubkey)
      ]_vars

----------------------------------------------------------------------------
(* Claims about the NIP-46 backend *)

PublishedFor(id) == {i \in DOMAIN published : published[i].id = id}

\* C1: for every non-connect request the method handler runs and a success
\* result is sent only after the permit callback returned true for that
\* request; if it returned false nothing is signed, encrypted or decrypted
\* and the reply is the error "Not authorized".
C1_PermitBeforeHandler ==
    \A h \in Handlers :
        LET x == handling[h]
            notAuthorized == Error(x.id, x.remotePubkey, "Not authorized")
        IN (x.pc # "idle" /\ x.method # "connect") =>
            /\ x.crypto # "none" => x.permitted = "true"
            /\ \A i \in DOMAIN x.sent :
                    x.sent[i].result # "error" => x.permitted = "true"
            /\ \A i \in PublishedFor(x.id) :
                    published[i].result # "error" => x.permitted = "true"
            /\ x.permitted = "false" =>
                /\ x.crypto = "none"
                /\ x.sent # <<>> /\ x.sent[1] = notAuthorized
                /\ (x.pc = "done" /\ ~x.publishFailed) =>
                        /\ Cardinality(PublishedFor(x.id)) = 1
                        /\ \A i \in PublishedFor(x.id) : published[i] = notAuthorized

C1_Witness ==
    \E h \in Handlers :
        /\ handling[h].method = "nip44_decrypt"
        /\ handling[h].permitted = "false"
        /\ handling[h].pc = "done"
        /\ \E i \in PublishedFor(h) : published[i].error = "Not authorized"

\* the connect carries a non-empty secret that differs from the configured
\* admin secret, both trimmed and lowercased
MismatchedSecret(provided, admin) ==
    /\ admin.present /\ Normalized(admin).chars # <<>>
    /\ provided.present /\ Normalized(provided).chars # <<>>
    /\ Normalized(provided).chars # Normalized(admin).chars

\* C5: for a connect with a mismatched admin secret the backend publishes
\* no event at all (neither "ack" nor an error), creates no pending request
\* (the permit callback is not called) and creates no KeyUser.
C5_SilentDropOnBadSecret ==
    \A h \in Handlers :
        LET x == handling[h]
        IN ( /\ x.pc # "idle"
             /\ x.method = "connect"
             /\ MismatchedSecret(x.secret, adminSecret) )
           => /\ x.sent = <<>>
              /\ PublishedFor(x.id) = {}
              /\ ~x.permitCalled
              /\ ~x.createCalled

\* C15: an event whose signature does not verify is dropped before
\* anything else happens: the backend does not decrypt it, calls neither
\* the ACL / permit callback nor the KeyUser creation, and sends nothing.
C15_BadSignatureDroppedFirst ==
    \A h \in Handlers :
        (handling[h].pc # "idle" /\ ~handling[h].sigOk) =>
            /\ ~handling[h].decrypted
            /\ ~handling[h].permitCalled
            /\ ~handling[h].createCalled
            /\ handling[h].sent = <<>>

\* C16: once the signature verified, a failure at any later stage
\* (decryption or parsing, authorization, execution) is answered with an
\* error response: a finished handler has sent something.
C16_LaterFailureAnswered ==
    \A h \in Handlers :
        (handling[h].pc = "done" /\ handling[h].sigOk) => handling[h].sent # <<>>

\* C17: when a parked request reaches its 60 s TTL nothing is published
\* for it; "Not authorized" goes out only on an explicit denial.
C17_ExpiryIsSilent ==
    \A h \in Handlers :
        /\ handling[h].expired => handling[h].sent = <<>>
        /\ \A i \in 1..Len(handling[h].sent) :
                (handling[h].permitCalled /\ handling[h].sent[i].error = "Not authorized")
                    => (handling[h].permitted = "false" /\ ~handling[h].expired)

----------------------------------------------------------------------------
(* Claims about parked requests *)

Decided(row) == row.state = "present" /\ row.allowed # "null"

\* C3: the `allowed` field of a request changes from null at most once and
\* is never changed afterwards; an approve or deny issued after the
\* decision fails with AlreadyProcessed and leaves allowed and processed-at
\* as they are.
C3_MonoDecision ==
    [][ /\ \A id \in RequestIds :
            Decided(requests[id]) =>
                /\ requests'[id].allowed = requests[id].allowed
                /\ requests'[id].processedAt = requests[id].processedAt
        /\ \A d \in DeciderSlots :
            (deciders'[d].pc = "done" /\ deciders'[d].record.state # "present")
                => deciders'[d].result = "AlreadyProcessed"
      ]_vars

SuccessesOf(b, id) ==
    {i \in DOMAIN batches[b].results :
        batches[b].results[i].id = id /\ batches[b].results[i].success}

FailuresOf(b, id, error) ==
    {i \in DOMAIN batches[b].results :
        /\ batches[b].results[i].id = id
        /\ ~batches[b].results[i].success
        /\ batches[b].results[i].error = error}

ApprovedEvents(id) ==
    {i \in DOMAIN emitted : emitted[i] = [type |-> "request:approved", id |-> id]}

\* the call found the request pending when it looked it up
ReadAsPending(b) ==
    batches[b].record.state = "present" /\ batches[b].record.allowed = "null"

GrantsOf(b, id) == {i \in DOMAIN batches[b].granted : batches[b].granted[i] = id}

\* C4: of two approve calls for the same pending request id that run
\* concurrently, exactly one reports success and the other reports
\* AlreadyProcessed, and the pair yields exactly one request:approved
\* event and one permission grant.
C4_ConcurrentApprove ==
    \A id \in RequestIds : \A b1, b2 \in BatchSlots :
        ( /\ b1 # b2
          /\ batches[b1].pc = "done" /\ batches[b1].ids = <<id>>
          /\ batches[b2].pc = "done" /\ batches[b2].ids = <<id>>
          /\ ReadAsPending(b1) /\ ReadAsPending(b2) )
        => /\ SuccessesOf(b1, id) = {} \/ SuccessesOf(b2, id) = {}
           /\ SuccessesOf(b1, id) # {} \/ SuccessesOf(b2, id) # {}
           /\ SuccessesOf(b1, id) = {} =>
                    FailuresOf(b1, id, "Request already processed") # {}
           /\ SuccessesOf(b2, id) = {} =>
                    FailuresOf(b2, id, "Request already processed") # {}
           /\ Cardinality(ApprovedEvents(id)) = 1
           /\ Cardinality(GrantsOf(b1, id)) + Cardinality(GrantsOf(b2, id)) <= 1

----------------------------------------------------------------------------
(* Claims about connection tokens *)

RedeemedBy(t) == {r \in Redeemers : redeems[r].token = t /\ redeems[r].result = "true"}

\* C6: of any number of concurrent validateAndRedeemToken calls for one
\* token at most one returns true; every other call returns false.
C6_TokenRedeemedOnce ==
    /\ \A t \in Tokens : Cardinality(RedeemedBy(t)) <= 1
    /\ \A r \in Redeemers :
        redeems[r].pc = "done" => redeems[r].result \in {"true", "false"}

C6_Witness ==
    \E r1, r2 \in Redeemers :
        /\ redeems[r1].pc = "done" /\ redeems[r2].pc = "done"
        /\ redeems[r1].token = redeems[r2].token
        /\ redeems[r1].at = redeems[r2].at
        /\ redeems[r1].result = "true"
        /\ redeems[r2].result = "false"

----------------------------------------------------------------------------
(* Claims about the key vault *)

\* C18: a key-vault call (create, unlock, rename, set_passphrase, delete)
\* that fails at any step leaves the key set of the on-disk config and the
\* in-memory maps allKeys and activeKeys as they were before the call.
C18_FailedCallChangesNothing ==
    keyOp.outcome = "failed" =>
        /\ configKeys = keyOp.before.configKeys
        /\ allKeys = keyOp.before.allKeys
        /\ activeKeys = keyOp.before.activeKeys

\* the KeyUsers of the key a call was made on that were not revoked before it
KeyUsersBefore ==
    {ku \in keyOp.before.keyUsers :
        ku.keyName = keyOp.keyName /\ ku.revokedAt = NoTime}

\* the call was a deleteKey of an encrypted key
DeletedEncrypted ==
    /\ keyOp.fn = "deleteKey"
    /\ keyOp.keyName \in DOMAIN keyOp.before.allKeys
    /\ keyOp.before.allKeys[keyOp.keyName].encrypted

\* C19: deleting an encrypted key without a passphrase fails with
\* PassphraseRequired and with a wrong one with InvalidPassphrase, no
\* KeyUser revoked and the key still in the config and in memory; with the
\* right passphrase the call revokes all of the key's KeyUsers, returns
\* their number and removes the key from the config, allKeys and activeKeys.
C19_DeleteKeyPassphrase ==
    (DeletedEncrypted /\ keyOp.outcome # "running") =>
        /\ keyOp.passphrase = "none" =>
                /\ keyOp.outcome = "failed"
                /\ keyOp.error = "Passphrase required to delete encrypted key"
        /\ keyOp.passphrase = "bad" =>
                /\ keyOp.outcome = "failed"
                /\ keyOp.error = "Invalid passphrase"
        /\ keyOp.passphrase # "good" =>
                /\ keyUsers = keyOp.before.keyUsers
                /\ configKeys = keyOp.before.configKeys
                /\ allKeys = keyOp.before.allKeys
                /\ activeKeys = keyOp.before.activeKeys
        /\ (keyOp.passphrase = "good" /\ keyOp.outcome = "ok") =>
                /\ \A ku \in keyUsers :
                        ku.keyName = keyOp.keyName => ku.revokedAt # NoTime
                /\ keyOp.revokedApps = Cardinality(KeyUsersBefore)
                /\ keyOp.keyName \notin configKeys
                /\ keyOp.keyName \notin DOMAIN allKeys
                /\ keyOp.keyName \notin activeKeys

\* an encrypted key with two connected apps was deleted with its passphrase
C19_Witness ==
    /\ DeletedEncrypted
    /\ keyOp.outcome = "ok"
    /\ keyOp.revokedApps = 2

\* a deleteKey with a wrong passphrase was refused
C19_WitnessRefused ==
    /\ DeletedEncrypted
    /\ keyOp.passphrase = "bad"
    /\ keyOp.outcome = "failed"

----------------------------------------------------------------------------
(* Claims about the subscription manager                                   *)

\* a heartbeat tick that sees at least three intervals gone by
JumpObserved ==
    /\ manager'.beats > manager.beats
    /\ now' - manager.lastHeartbeat >= HEARTBEAT_INTERVAL_MS * 3

\* the tick arms the debounce timer of a restart
RestartScheduled == JumpObserved => manager'.restartDebounceTimer

\* the restart that follows an observed jump resumes after its pause
ResumedAfterJump ==
    /\ restart.pc = "pause"
    /\ restart'.pc = "idle"
    /\ sleepWake.watching

\* s, managed before the jump, was closed and opened once since, and is
\* managed and open with the id, filter and handler it had
RecreatedOnce(s) ==
    /\ s.id \in sleepWake'.closed
    /\ sleepWake'.created[s.id] = 1
    /\ subscriptions'[s.id] # NoSub
    /\ subscriptions'[s.id].filter = s.filter
    /\ subscriptions'[s.id].onEvent = s.onEvent
    /\ \E ps \in poolSubs' :
        /\ ps.h = subscriptions'[s.id].cleanup
        /\ ps.id = s.id
        /\ ps.filter = s.filter
        /\ ps.onEvent = s.onEvent

AllRecreatedOnce == ResumedAfterJump => \A s \in sleepWake.subs : RecreatedOnce(s)

\* C13: a heartbeat tick that sees at least 3 heartbeat intervals elapsed
\* since the previous tick schedules a restart, and when that restart has
\* resumed after its pause, every subscription managed before the jump has
\* been closed and re-created exactly once with its id, filter and handler.
C13_SleepWakeRestartsAll == [][RestartScheduled /\ AllRecreatedOnce]_vars

\* C14: every subscription registered with subscribe and not yet
\* unsubscribed has an open subscription in the relay pool, in every state,
\* a restart's pause included.
C14_RegisteredAreLive ==
    \A id \in registered : \E ps \in poolSubs : ps.id = id

----------------------------------------------------------------------------
(* Claims about activation                                                 *)

\* the open kind-24133 subscriptions of the backend of keyName
KeySubscriptions(pool, keyName) ==
    {ps \in pool : ps.id = SubscriptionId(keyName) /\ 24133 \in ps.filter.kinds}

\* start() of the backend of keyName is called in this step
StartCalled(keyName) == backends'[keyName].starts > backends[keyName].starts

\* an unlockKey of keyName returns in this step
UnlockReturned(keyName) ==
    /\ keyOp.fn = "unlockKey"
    /\ keyOp.keyName = keyName
    /\ keyOp.outcome = "running"
    /\ keyOp'.outcome = "ok"

ActivatedWhileRunning(keyName) ==
    /\ backends[keyName].isRunning
    /\ StartCalled(keyName) \/ UnlockReturned(keyName)

ActivationIsNoOp(keyName) ==
    ActivatedWhileRunning(keyName) =>
        /\ backends'[keyName].isRunning
        /\ poolSubs' = poolSubs
        /\ subscriptions' = subscriptions
        /\ registered' = registered

C20_WitnessUnlock ==
    \E k \in Keys :
        /\ keyOp.fn = "unlockKey" /\ keyOp.keyName = k
        /\ keyOp.outcome = "ok" /\ keyOp.n = 2
        /\ backends[k].isRunning
        /\ backends[k].starts = 1
        /\ Cardinality(KeySubscriptions(poolSubs, k)) = 1

----------------------------------------------------------------------------
(* Claims about the wire format                                            *)

\* the request is a valid sign_event request, and it was permitted
PermittedValidSign ==
    /\ wire.pc \in {"publish", "done"}
    /\ wire.out # <<>>
    /\ wire.permitted
    /\ CanSignEvent(wire.params)

\* what the client asked to have signed
Template == JSONparse(wire.params[1])

\* the canonical hash of the supplied fields under the key's pubkey
CanonicalHash ==
    [sha256 |-> <<0, getPublicKey(wire.nsec), Get(Template, "created_at"),
                  Get(Template, "kind"), Get(Template, "tags"),
                  Get(Template, "content")>>]

\* the client reads the response event
RoundTrip(event) ==
    /\ Get(event, "kind") = 24133
    /\ verifyEvent(event)
    /\ Get(event, "pubkey") = getPublicKey(wire.nsec)
    /\ Get(event, "tags") = <<<<"p", getPublicKey(wire.client)>>>>
    /\ LET key == getConversationKey(wire.client, getPublicKey(wire.nsec))
           content == Get(event, "content")
       IN /\ CanDecrypt(content, key)
          /\ IsJson(nip44Decrypt(content, key))
          /\ LET response == JSONparse(nip44Decrypt(content, key))
             IN /\ Get(response, "id") = wire.id
                /\ ~Has(response, "error")
                /\ IsJson(Get(response, "result"))
                /\ LET signed == JSONparse(Get(response, "result"))
                   IN /\ verifyEvent(signed)
                      /\ Get(signed, "pubkey") = getPublicKey(wire.nsec)
                      /\ Get(signed, "id") = CanonicalHash

\* C11: for a valid sign_event request that was permitted, the published
\* response is a kind-24133 event that verifies under the key's pubkey, is
\* tagged p with the requester's pubkey, and decrypts under the conversation
\* key of (requester, key) to a response with the request's id and a signed
\* event that verifies under the key's pubkey and whose id is the canonical
\* hash of the supplied fields.
C11_SignRoundTrip == PermittedValidSign => RoundTrip(wire.out[1])

\* a permitted request whose template brought a pubkey of its own was answered
C11_Witness ==
    /\ PermittedValidSign
    /\ wire.pc = "done"
    /\ Has(Template, "pubkey")
    /\ Get(Template, "pubkey") # getPublicKey(wire.nsec)
    /\ RoundTrip(wire.out[1])
----------------------------------------------------------------------------
(* Claims about approvals                                                  *)

\* the rows a step adds to the SigningCondition table
InsertedConditions ==
    {c \in BagToSet(conditions') : CopiesIn(c, conditions') > CopiesIn(c, conditions)}

\* the permitAllRequests call of batch b, made for an always-allowed
\* sign_event request, inserts its row in this step
AlwaysAllowInserts(b) ==
    /\ batches[b].pc = "grant"
    /\ batches[b].alwaysAllow
    /\ batches[b].record.method = "sign_event"
    /\ nOps = batches[b].ticket
    /\ op.fn = "permitAllRequests"
    /\ InsertedConditions # {}

\* kinds of later sign_event requests
LaterKinds == {1, 4, 9999}

\* the row is found by the evaluator's query for a sign_event of this kind
PermitsKind(c, kind) ==
    LET query == buildConditionQuery("sign_event", EventPayload(kind))
    IN c.method = query.method /\ c.allowed /\ c.kind \in query.kinds

ScopedToRequest(b) ==
    \A c \in InsertedConditions :
        /\ c.method = batches[b].record.method
        /\ PermitsKind(c, extractKind(batches[b].record.params))
        /\ \A kind \in LaterKinds :
                kind # extractKind(batches[b].record.params) => ~PermitsKind(c, kind)

\* C21: approving a sign_event request with always-allow inserts an allow
\* condition for sign_event and the kind of the request's event: the row
\* does not permit a sign_event of another kind.
C21_AlwaysAllowScoped ==
    [][\A b \in BatchSlots : AlwaysAllowInserts(b) => ScopedToRequest(b)]_vars
----------------------------------------------------------------------------
(* Connects arriving one after the other at the backend of BackendKey,    *)
(* which may already know the client                                      *)

\* the KeyUser rows the backend may find at its start: none, or the client's
\* row at some trust level, with or without its connect condition
KnownClients ==
    {[keyUsers |-> {}, conditions |-> EmptyBag, nextId |-> 1]}
    \cup {[keyUsers |-> {NewKeyUser(1, BackendKey, p, t)},
           conditions |-> IF has THEN SetToBag({Cond(1, "connect", KindNull, TRUE)})
                          ELSE EmptyBag,
           nextId |-> 2] : p \in Pubkeys, t \in TrustLevels, has \in BOOLEAN}

InitConnect ==
    /\ \E known \in KnownClients :
            /\ keyUsers = known.keyUsers
            /\ conditions = known.conditions
            /\ nextKeyUserId = known.nextId
    /\ now = 0
    /\ aclCache = <<>>
    /\ evals = [e \in EvalSlots |-> IdleEval]
    /\ op = IdleOp
    /\ nEvals = 0
    /\ nOps = 0
    /\ revokeReturned = {}
    /\ revokeFresh = {}
    /\ blockReturned = {}
    /\ allKeys \in StoredKeys
    /\ configKeys = Keys
    /\ activeKeys = Keys
    /\ adminSecret \in AdminSecrets
    /\ handling = [h \in Handlers |-> IdleHandling]
    /\ published = <<>>
    /\ InitNoRequests
    /\ InitNoTokens
    /\ InitNoExt

\* handleEvent has returned: the onEvent callback takes the next event
HandleEventReturns(h) ==
    /\ handling[h].pc = "done"
    /\ Len(published) < MaxReplies
    /\ handling' = [handling EXCEPT ![h] = IdleHandling]
    /\ UNCHANGED <<aclVars, adminSecret, published, requestVars, tokenVars>>

NextConnect ==
    \/ NextBackend
    \/ \E h \in Handlers : HandleEventReturns(h) /\ UNCHANGED extVars

SpecConnect == InitConnect /\ [][NextConnect]_vars

\* the rows of (key, remote pubkey), and the connect conditions of a row
KeyUsersOf(keyName, remotePubkey) ==
    {ku \in keyUsers : ku.keyName = keyName /\ ku.userPubkey = remotePubkey}

ConnectConditions(conds, keyUserId) ==
    {c \in BagToSet(conds) : c.keyUserId = keyUserId /\ c.method = "connect"}

CountConnect(conds, keyUserId) ==
    IF ConnectConditions(conds, keyUserId) = {} THEN 0
    ELSE LET c == CHOOSE x \in ConnectConditions(conds, keyUserId) : TRUE
         IN IF ConnectConditions(conds, keyUserId) = {c}
            THEN CopiesIn(c, conds) ELSE 2

\* handler h took the secret route and createKeyUserForConnect has returned
AutoApproved(h) ==
    /\ handling[h].method = "connect"
    /\ handling[h].createCalled
    /\ handling[h].pc \in {"publish", "done"}

\* what holds once the auto-approval has returned
AutoApprovedState(h) ==
    LET x == handling[h]
    IN /\ ~x.permitCalled
       /\ \A id \in RequestIds : requests[id] = NoRequest
       /\ \E ku \in KeyUsersOf(BackendKey, x.remotePubkey) :
            /\ CountConnect(conditions, ku.id) = 1
            /\ \A c \in ConnectConditions(conditions, ku.id) : c.allowed
       /\ x.sent[1] = Result(x.id, x.remotePubkey, "ack")

\* what every step keeps: a row keeps its trust level, a new row is
\* `reasonable`, and a connect condition is added only where there is none
ConnectStep ==
    /\ \A ku \in keyUsers :
            \E after \in keyUsers' : after.id = ku.id /\ after.trustLevel = ku.trustLevel
    /\ \A after \in keyUsers' :
            (\A ku \in keyUsers : ku.id # after.id) =>
                after.trustLevel = DEFAULT_TRUST_LEVEL
    /\ \A after \in keyUsers' :
            CountConnect(conditions', after.id) > CountConnect(conditions, after.id)
                => CountConnect(conditions, after.id) = 0

----------------------------------------------------------------------------
(* The policy-token specification: applyToken calls, of one backend class, *)
(* presenting the token of key k1 while time passes                        *)

InitApplyToken ==
    /\ InitAclVars
    /\ InitNoBackend
    /\ InitNoRequests
    /\ tokens = [t \in Tokens |-> NoToken]
    /\ redeems = [r \in Redeemers |-> IdleRedeem]
    /\ policyToken \in {NewPolicyToken("k1", expiresAt) : expiresAt \in {NoTime, TickMs}}
    /\ applies = [a \in Appliers |-> IdleApply]
    /\ http = NoReply
    /\ InitNoSide
    /\ InitNoExt

NextApplyToken ==
    \/ \E a \in Appliers, backend \in TokenBackends, p \in ApplyPubkeys :
            ApplyToken(a, backend, p) /\ UNCHANGED extVars
    \/ \E a \in Appliers : ApplyFetch(a) /\ UNCHANGED extVars
    \/ \E a \in Appliers : ApplyClaim(a) /\ UNCHANGED extVars
    \/ \E a \in Appliers, ok \in BOOLEAN : ApplyUpsert(a, ok) /\ UNCHANGED extVars
    \/ \E a \in Appliers, ok \in BOOLEAN : ApplyLink(a, ok) /\ UNCHANGED extVars
    \/ \E a \in Appliers, ok \in BOOLEAN : ApplyCreateConnect(a, ok) /\ UNCHANGED extVars
    \/ \E a \in Appliers, ok \in BOOLEAN : ApplyCreateRule(a, ok) /\ UNCHANGED extVars
    \/ \E a \in Appliers, ok \in BOOLEAN : ApplyRedeem(a, ok) /\ UNCHANGED extVars
    \/ \E a \in Appliers, ok \in BOOLEAN : ApplyUnclaim(a, ok) /\ UNCHANGED extVars
    \/ Advance(TickMs) /\ UNCHANGED nonAclVars

SpecApplyToken == InitApplyToken /\ [][NextApplyToken]_vars

----------------------------------------------------------------------------
(* Claims about policy tokens                                              *)

\* C23: once a token's redeemedAt is set, no step sets it back to null: a
\* token seen as redeemed stays redeemed.
C23_RedeemedAtNeverCleared ==
    [][policyToken.redeemedAt # NoTime => policyToken'.redeemedAt # NoTime]_vars

\* the same of the ConnectionToken rows, which have a delete
ConnectionTokenStaysRedeemed ==
    [][\A t \in Tokens :
            tokens[t].state = "present" /\ tokens[t].redeemedAt # NoTime
                => \/ tokens'[t].state = "deleted"
                   \/ tokens'[t].redeemedAt # NoTime]_vars

\* C28: of the applyToken calls made with one token at most one returns:
\* once a call has returned, every other call that has ended threw
\* 'Token already redeemed' and has created no SigningCondition.
C28_OneRedemption ==
    \A a, b \in Appliers :
        a # b /\ applies[a].result = "ok" /\ applies[b].pc = "done"
            => /\ applies[b].result = "throws"
               /\ applies[b].error = "Token already redeemed"
               /\ applies[b].created = EmptyBag

\* the connect condition and one allow condition per rule of the policy
RedemptionConditions(keyUserId) ==
    SetToBag({Cond(keyUserId, "connect", KindNull, TRUE)})
    (+) SetToBag({RuleCondition(keyUserId, PolicyRules[i]) : i \in DOMAIN PolicyRules})

\* the call's KeyUser is tied to the token and holds the whole set
Materialised(a) ==
    /\ policyToken.keyUserId = applies[a].keyUserId
    /\ applies[a].created = RedemptionConditions(applies[a].keyUserId)

\* C29: when an applyToken call of Nip46Backend has returned or thrown,
\* either its KeyUser is tied to the token and holds the connect condition
\* and one condition per policy rule, or the call has left no condition.
C29_RedemptionAtomic ==
    \A a \in Appliers :
        applies[a].pc = "done" /\ applies[a].backend = "Nip46Backend"
            => Materialised(a) \/ applies[a].created = EmptyBag
----------------------------------------------------------------------------
(* The error-reply specification: a route handler throws, the HTTP layer   *)
(* replies                                                                 *)

MaxWords == 3           \* length of the other messages

\* words of messages: those of the patterns, and one of none
HttpWords ==
    {"Invalid", "required", "not", "Not", "found", "already", "exists", "valid", "key"}

RECURSIVE WordSeqs(_)
WordSeqs(n) ==
    IF n = 0 THEN {<<>>}
    ELSE WordSeqs(n - 1)
         \cup {Append(m, w) : m \in {x \in WordSeqs(n - 1) : Len(x) = n - 1},
                               w \in HttpWords}

\* what a handler may throw
ErrorMessages == {e.message : e \in ServiceErrors} \cup WordSeqs(MaxWords)

httpFrame ==
    <<aclVars, backendVars, requestVars, tokens, redeems, policyVars, sideVars,
      extVars>>

InitHttp == InitAclVars /\ InitNonAcl

NextHttp ==
    \/ \E message \in ErrorMessages : RouteThrows(message) /\ UNCHANGED httpFrame
    \/ SendError /\ UNCHANGED httpFrame

SpecHttp == InitHttp /\ [][NextHttp]_vars

\* the status of an error kind
KindStatus ==
    [NotFound |-> 404, NameInUse |-> 409, InvalidPassphrase |-> 400,
     PassphraseRequired |-> 400, EmptyPassphrase |-> 400, EmptyName |-> 400,
     InvalidSecretEncoding |-> 400]

\* C24: the reply to a service error has the status of the error's kind:
\* 404 for NotFound, 409 for NameInUse, 400 for the invalid-argument kinds;
\* none of these errors is answered with 500.
C24_StatusOfKind ==
    \A e \in ServiceErrors :
        http.pc = "sent" /\ http.message = e.message /\ e.kind \in DOMAIN KindStatus
            => http.status = KindStatus[e.kind]
----------------------------------------------------------------------------
(* The condition specification: evaluations for a client whose KeyUser     *)
(* and SigningCondition rows are already in the database, while            *)
(* permitAllRequests and blockAllRequests add rows                         *)

\* rows of the client's KeyUser, allow and deny
SeedRows ==
    {Cond(1, m, k, a) : m \in {"sign_event", "encrypt"},
                        k \in {KindNull, KindAll, NumberToString(1)},
                        a \in BOOLEAN}

\* the tables at the start: up to two rows
SeedTables == {{}} \cup {{c, d} : c, d \in SeedRows}

InitConditions ==
    /\ now = 0
    /\ \E t \in TrustLevels, revokedAt \in {NoTime, 0} :
            keyUsers = {[NewKeyUser(1, "k1", "p1", t) EXCEPT !.revokedAt = revokedAt]}
    /\ nextKeyUserId = 2
    /\ conditions \in {SetToBag(rows) : rows \in SeedTables}
    /\ aclCache = <<>>
    /\ evals = [e \in EvalSlots |-> IdleEval]
    /\ op = IdleOp
    /\ nEvals = 0
    /\ nOps = 0
    /\ revokeReturned = {}
    /\ revokeFresh = {}
    /\ blockReturned = {}
    /\ allKeys = [k \in Keys |-> StoredKey(FALSE)]
    /\ configKeys = Keys
    /\ activeKeys = Keys
    /\ InitNonAcl

NextConditions ==
    \/ \E e \in EvalSlots, k \in Keys, p \in Pubkeys, r \in TrustRequests :
            nEvals < MaxTrustEvals /\ StartEval(e, k, p, r[1], r[2]) /\ UNCHANGED nonAclVars
    \/ \E e \in EvalSlots : EvalFindKeyUser(e) /\ UNCHANGED nonAclVars
    \/ \E e \in EvalSlots : EvalFindDeny(e) /\ UNCHANGED nonAclVars
    \/ \E e \in EvalSlots : EvalFindCondition(e) /\ UNCHANGED nonAclVars
    \/ \E e \in EvalSlots : EvalReturn(e) /\ UNCHANGED nonAclVars
    \/ \E k \in Keys, p \in Pubkeys, g \in TrustGrants :
            nOps < MaxConditionOps /\ CallPermitAllRequests(p, k, g[1], g[2]) /\ UNCHANGED nonAclVars
    \/ StepPermitAllRequests /\ UNCHANGED nonAclVars
    \/ \E k \in Keys, p \in Pubkeys :
            nOps < MaxConditionOps /\ CallBlockAllRequests(p, k) /\ UNCHANGED nonAclVars
    \/ StepBlockAllRequests /\ UNCHANGED nonAclVars

SpecConditions == InitConditions /\ [][NextConditions]_vars

\* the rows of the KeyUser that match the request, in the claim's words:
\* the method, and for sign_event the kind 'all' or the event's kind
MatchesRequest(c, method, payload) ==
    /\ c.method = method
    /\ method = "sign_event" =>
            \/ c.kind = KindAll
            \/ /\ payload.form = "event" /\ payload.hasKind
               /\ c.kind = NumberToString(payload.kind)

MatchingRows(keyUserId, method, payload) ==
    {c \in BagToSet(conditions) :
        c.keyUserId = keyUserId /\ MatchesRequest(c, method, payload)}

\* the client's KeyUser is there, not revoked, and has no global deny
Unblocked(keyName, remotePubkey) ==
    \E ku \in KeyUserOf(keyName, remotePubkey) :
        ku.revokedAt = NoTime /\ ExplicitDenyRows(ku.id) = {}

\* the step in which evaluation e issues its method/kind lookup: a row is
\* found iff a row matches, and the row found matches
LookupStep(e) ==
    evals[e].pc # "findCondition" /\ evals'[e].pc = "findCondition"
        => LET rows == MatchingRows(evals'[e].keyUserId, evals'[e].method,
                                    evals'[e].payload)
           IN /\ evals'[e].condition \subseteq rows
              /\ evals'[e].condition = {} <=> rows = {}

\* the step that takes the lookup's result: the row found decides
DecisionStep(e) ==
    evals[e].pc = "findCondition" /\ evals'[e].pc = "done"
        => \A c \in evals[e].condition :
                evals'[e].result = IF c.allowed THEN "Permitted" ELSE "Denied"

\* an evaluation that ends without the lookup was for a client with no
\* KeyUser, a revoked one or a global deny
SkippedStep(e) ==
    /\ evals[e].pc \notin {"findCondition", "done"} /\ evals'[e].pc = "done"
        => ~Unblocked(evals'[e].keyName, evals'[e].remotePubkey)
    /\ evals[e].pc = "idle" /\ evals'[e].pc # "idle"
       /\ Unblocked(evals'[e].keyName, evals'[e].remotePubkey)
        => evals'[e].pc # "done"

C25_WitnessAllow ==
    \E e \in EvalSlots :
        /\ evals[e].pc = "done"
        /\ evals[e].trustLevel = "paranoid"
        /\ evals[e].condition # {}
        /\ evals[e].result = "Permitted"
----------------------------------------------------------------------------
(* Claims about the lifetime of parked requests                            *)

\* the request is undecided and its TTL has passed
TtlPassed(id) ==
    /\ requests[id].state = "present"
    /\ requests[id].allowed = "null"
    /\ requests[id].createdAt + REQUEST_EXPIRY_MS < now

\* C26: of expiry and decision one wins: a decided request is not removed
\* as expired, and a request whose TTL has passed undecided is not marked
\* approved or denied by a later approve or deny.
C26_ExpiryOrDecision ==
    [][\A id \in RequestIds :
        /\ requests[id].state = "present" /\ requests[id].allowed # "null"
            => requests'[id].state = "present"
        /\ TtlPassed(id) => requests'[id].allowed = "null"]_vars

\* the same for the request:approved event: none is emitted for a request
\* that was decided after its TTL
C26_NoLateApproval ==
    [][\A id \in RequestIds :
        /\ Len(emitted') > Len(emitted)
        /\ emitted'[Len(emitted')] = [type |-> "request:approved", id |-> id]
        /\ requests[id].state = "present"
        => requests[id].processedAt <= requests[id].createdAt + REQUEST_EXPIRY_MS]_vars

\* RequestRepository.findMany({status}): the ids of the rows it returns,
\* run at time t (its `where`; offset and limit left out)
findMany(table, status, t) ==
    LET expiryThreshold == t - REQUEST_EXPIRY_MS
    IN {id \in RequestIds :
            /\ table[id].state = "present"
            /\ IF status = "approved" THEN table[id].allowed = "true"
               ELSE IF status = "expired"
               THEN table[id].allowed = "null" /\ table[id].createdAt < expiryThreshold
               ELSE table[id].allowed = "null" /\ table[id].createdAt >= expiryThreshold}

\* RequestRepository.countPending, the dashboard's pendingRequests
countPending(table) ==
    Cardinality({id \in RequestIds :
                    table[id].state = "present" /\ table[id].allowed = "null"})

\* the undecided requests, and those of them younger than the TTL
Undecided == {id \in RequestIds :
                requests[id].state = "present" /\ requests[id].allowed = "null"}

YoungUndecided == {id \in Undecided : now - requests[id].createdAt < REQUEST_EXPIRY_MS}

\* C27: the pending list and the dashboard's pending count report a request
\* only while it is undecided and younger than 60 s; from createdAt + 60 s
\* on it is in the expired list; the two lists are disjoint and together
\* are the undecided requests.
C27_PendingIsYoung ==
    /\ findMany(requests, "pending", now) = YoungUndecided
    /\ findMany(requests, "expired", now) = Undecided \ YoungUndecided
    /\ countPending(requests) = Cardinality(YoungUndecided)

\* the two lists split the undecided requests
ListsSplitUndecided ==
    /\ findMany(requests, "pending", now) \cap findMany(requests, "expired", now) = {}
    /\ findMany(requests, "pending", now) \cup findMany(requests, "expired", now) = Undecided

\* the count is the length of the pending list, the boundary left aside
CountIsPendingList ==
    countPending(requests) = Cardinality(findMany(requests, "pending", now))
----------------------------------------------------------------------------
(* The manager specification with its timers firing: an armed debounce     *)
(* timer, the pause of a restart, a ping's timeout and the initial check   *)
(* are setTimeout callbacks of the event loop, which runs them             *)

SpecManagerFair ==
    /\ InitManager
    /\ [][NextManager]_vars
    /\ WF_vars(RestartTimerFires /\ UNCHANGED managerFrame)
    /\ WF_vars(RestartResume /\ UNCHANGED managerFrame)
    /\ WF_vars(InitialHealthCheck /\ UNCHANGED managerFrame)
    /\ WF_vars(\E healthy \in BOOLEAN : PingReturn(healthy) /\ UNCHANGED managerFrame)

\* a ping of the running manager, with a subscription managed, times out
PingFails == PingReturn(FALSE) /\ manager.isRunning /\ Managed # {}

\* a restart is scheduled: its debounce timer is armed
RestartTimerArmed == manager'.pendingRestart /\ manager'.restartDebounceTimer

\* a ping that got its EOSE schedules nothing
PingPassesQuietly ==
    PingReturn(TRUE) /\ ~manager.pendingRestart
        => ~manager'.pendingRestart /\ ~manager'.restartDebounceTimer

\* C30: whenever a ping of the running manager gets no EOSE a restart of
\* the managed subscriptions is scheduled, and a restart scheduled in a
\* running manager is eventually executed, also after the manager was
\* stopped with a restart pending and started again; a ping that gets its
\* EOSE schedules no restart.
C30_PingFailureRestarts ==
    /\ [][(PingFails => RestartTimerArmed) /\ PingPassesQuietly]_vars
    /\ (manager.isRunning /\ manager.pendingRestart)
            ~> (~manager.pendingRestart \/ ~manager.isRunning)

\* the two halves
PingFailureSchedules == [][PingFails => RestartTimerArmed]_vars

PendingRestartRuns ==
    (manager.isRunning /\ manager.pendingRestart)
        ~> (~manager.pendingRestart \/ ~manager.isRunning)

----------------------------------------------------------------------------
(* The restart specification: the manager of SpecManager and heartbeats   *)
(* that fire late, after a sleep, while a restart is scheduled or paused   *)

SleepGaps == {passed \in BeatGaps : sleepDetected(passed)}

NextRestart ==
    \/ NextManager
    \/ \E passed \in SleepGaps : LateHeartbeat(passed) /\ UNCHANGED managerFrame

SpecRestart == InitManager /\ [][NextRestart]_vars

\* a step that calls scheduleRestart: a heartbeat that sees a time jump, or a
\* ping that ended without EOSE
RestartTrigger ==
    \/ \E passed \in SleepGaps : RunHeartbeat(passed) \/ LateHeartbeat(passed)
    \/ PingReturn(FALSE)

\* a trigger that arrives while a restart is pending arms no timer and leaves
\* the pending one as it is
TriggerCoalesced ==
    RestartTrigger /\ manager.pendingRestart
        => /\ manager'.pendingRestart
           /\ manager'.restartDebounceTimer = manager.restartDebounceTimer

\* a trigger that arrives while none is pending arms the timer
TriggerArms ==
    RestartTrigger /\ ~manager.pendingRestart
        => manager'.pendingRestart /\ manager'.restartDebounceTimer

\* pool subscriptions of `id` that the step opened
OpenedBy(id) == {ps \in poolSubs' \ poolSubs : ps.id = id}

\* the execution re-creates each subscription it collected once, and no other
ExecutionRecreatesOnce ==
    RestartResume =>
        \A id \in SubIds :
            Cardinality(OpenedBy(id)) =
                IF id \in {sub.id : sub \in restart.toRestart} THEN 1 ELSE 0

\* a pending restart has its one timer armed: it is going to be executed
PendingHasTimer ==
    manager.isRunning /\ manager.pendingRestart => manager.restartDebounceTimer

\* C31: restart triggers are coalesced: a trigger that arrives while a restart
\* is pending arms no second timer, the pending restart keeps the one timer
\* of its first trigger until that timer fires and executes it, and the
\* execution re-creates each subscription it collected exactly once.
C31_RestartCoalesced ==
    /\ [][TriggerCoalesced /\ TriggerArms /\ ExecutionRecreatesOnce]_vars
    /\ []PendingHasTimer

\* the parts of C31, one by one
TriggersCoalesce == [][TriggerCoalesced /\ TriggerArms]_vars
ExecutionsRecreateOnce == [][ExecutionRecreatesOnce]_vars
\* no trigger ever arrives while a restart is pending with its timer armed
NoCoalescedTrigger ==
    [][~(RestartTrigger /\ manager.pendingRestart /\ manager.restartDebounceTimer)]_vars

----------------------------------------------------------------------------
(* The relay specification: the relay service, the relays of the pool     *)
(* dropping and connecting, reconnect timeouts and health checks          *)

relayFrame ==
    <<aclVars, backendVars, requestVars, tokens, redeems, policyVars, http, cacheUse,
      extVars>>

InitRelay ==
    /\ InitAclVars
    /\ InitNoBackend /\ InitNoRequests
    /\ tokens = [t \in Tokens |-> NoToken]
    /\ redeems = [r \in Redeemers |-> IdleRedeem]
    /\ policyToken = NewPolicyToken("", NoTime)
    /\ applies = [a \in Appliers |-> IdleApply]
    /\ http = NoReply
    /\ relayService \in {NewRelayService(up) : up \in [Relays -> BOOLEAN]}
    /\ cacheUse = NoCacheUse
    /\ InitNoExt

NextRelay ==
    \/ RelayStart /\ UNCHANGED relayFrame
    \/ RelayStop /\ UNCHANGED relayFrame
    \/ \E url \in Relays : RelayConnect(url) /\ UNCHANGED relayFrame
    \/ \E url \in Relays : RelayConnectSettles(url) /\ UNCHANGED relayFrame
    \/ \E url \in Relays : RelayDisconnect(url) /\ UNCHANGED relayFrame
    \/ \E url \in Relays : ReconnectTimerFires(url) /\ UNCHANGED relayFrame
    \/ PerformHealthCheck /\ UNCHANGED relayFrame
    \/ ReconnectAll /\ UNCHANGED relayFrame
    \/ \E threw \in BOOLEAN : ReconnectAllResumes(threw) /\ UNCHANGED relayFrame

SpecRelay == InitRelay /\ [][NextRelay]_vars

\* min(1 s * 2^attempts, 30 s)
Backoff(attempts) ==
    IF 1000 * 2^attempts > 30000 THEN 30000 ELSE 1000 * 2^attempts

Attempts(rs, url) == rs.relayStatus[url].reconnectAttempts

\* the step schedules a reconnect of url: the relay drops while the service
\* is running
SchedulesReconnect(url) ==
    /\ relayService.up[url] /\ ~relayService'.up[url]
    /\ relayService.isRunning

\* the delay scheduled is the backoff of the attempts made since the relay
\* last connected
DelayIsBackoff(url) ==
    SchedulesReconnect(url) =>
        relayService'.delay[url] = Backoff(relayService.made[url])

\* the relay connects: attempts is 0
ResetOnConnect(url) ==
    ~relayService.up[url] /\ relayService'.up[url] =>
        Attempts(relayService', url) = 0

\* attempts is not increased while the relay is connected
NotIncreasedWhileConnected(url) ==
    relayService.up[url] => Attempts(relayService', url) <= Attempts(relayService, url)

DelayBounded == \A url \in Relays : relayService.delay[url] <= 30000

\* C32: the delay scheduled before a reconnect after a disconnect is
\* min(1 s * 2^attempts, 30 s), attempts being the reconnect attempts made
\* since the relay last connected; attempts is 0 when the relay connects and
\* is not increased while the relay is connected; no delay exceeds 30 s.
C32_ReconnectBackoff ==
    /\ [][\A url \in Relays : /\ DelayIsBackoff(url)
                              /\ ResetOnConnect(url)
                              /\ NotIncreasedWhileConnected(url)]_vars
    /\ []DelayBounded

\* the parts of C32, one by one
DelaysAreBackoff == [][\A url \in Relays : DelayIsBackoff(url)]_vars
ConnectResets == [][\A url \in Relays : ResetOnConnect(url)]_vars
ConnectedKeepsAttempts == [][\A url \in Relays : NotIncreasedWhileConnected(url)]_vars
\* the delay scheduled is the backoff of the counter the service keeps
DelayOfCounter ==
    [][\A url \in Relays :
        SchedulesReconnect(url) =>
            relayService'.delay[url] = Backoff(Attempts(relayService, url))]_vars
\* the cap is never reached
DelayBelowCap == \A url \in Relays : relayService.delay[url] < 30000

----------------------------------------------------------------------------
(* last-used-at of the KeyUser on a permitted request                      *)

\* the finished evaluation found a method/kind row that allows
PermittedByCondition(e) ==
    /\ Finished(e)
    /\ evals[e].condition # {}
    /\ evals[e].result = "Permitted"

\* C33: whenever isRequestPermitted returns Permitted, through an explicit
\* allow condition or through the trust level, the update of the KeyUser's
\* last-used-at has been issued, and it is issued for no Denied or Undecided
\* result.
C33_LastUsedOnPermitted ==
    \A e \in EvalSlots :
        Finished(e) => (evals[e].lastUsedIssued <=> evals[e].result = "Permitted")

\* the parts of C33, one by one
TouchOnlyWhenPermitted ==
    \A e \in EvalSlots :
        Finished(e) /\ evals[e].lastUsedIssued => evals[e].result = "Permitted"
TouchWhenPermittedByTrust ==
    \A e \in EvalSlots :
        Finished(e) /\ evals[e].result = "Permitted" /\ evals[e].condition = {}
            => evals[e].lastUsedIssued
NoTouchWhenPermittedByCondition ==
    \A e \in EvalSlots : PermittedByCondition(e) => ~evals[e].lastUsedIssued
\* reachability: no call is ever permitted by a method/kind row
NeverPermittedByCondition == \A e \in EvalSlots : ~PermittedByCondition(e)

----------------------------------------------------------------------------
(* The cache specification: lookups, stores and invalidations of the ACL   *)
(* cache, with CacheCapacity entries at most, as time goes by               *)

cacheStepFrame ==
    <<backendVars, requestVars, tokens, redeems, policyVars, http, relayService,
      extVars>>

InitCache == InitAcl

NextCache ==
    \/ \E key \in CacheKeys : CacheLookup(key) /\ UNCHANGED cacheStepFrame
    \/ \E key \in CacheKeys, hasExplicitDeny \in BOOLEAN :
            CacheStore(key, hasExplicitDeny) /\ UNCHANGED cacheStepFrame
    \/ \E key \in CacheKeys : CacheInvalidate(key) /\ UNCHANGED cacheStepFrame
    \/ Advance(TickMs) /\ UNCHANGED nonAclVars

SpecCache == InitCache /\ [][NextCache]_vars

CachedKeys(cache) == {<<cache[i].keyName, cache[i].remotePubkey>> : i \in 1..Len(cache)}

\* the step is a setCachedEntry call
Stores == cacheUse'.op = "set" /\ cacheUse' # cacheUse

\* the entries the step removed to make room
Evicted == (CachedKeys(aclCache) \ CachedKeys(aclCache')) \ {cacheUse'.key}

CacheFull == Len(aclCache) >= CacheCapacity

\* the key of the step is not in the cache
KeyIsNew == cacheUse'.key \notin CachedKeys(aclCache)

\* the entry whose last read or write is the oldest
LeastRecentlyUsed == IF cacheUse.order = <<>> THEN {} ELSE {Head(cacheUse.order)}

\* the entry that was inserted first
FirstInserted ==
    IF aclCache = <<>> THEN {} ELSE {<<aclCache[1].keyName, aclCache[1].remotePubkey>>}

CacheWithinCapacity == Len(aclCache) <= CacheCapacity

\* C34: the ACL cache is an LRU cache: it never holds more entries than its
\* capacity, a store evicts an entry only when the cache is full and the key
\* is new, and the entry it evicts is the least recently used one.
C34_CacheIsLru ==
    /\ []CacheWithinCapacity
    /\ [][Stores =>
            /\ Evicted # {} => CacheFull /\ KeyIsNew
            /\ Evicted \subseteq LeastRecentlyUsed]_vars

\* the parts of C34, one by one
EvictsOnlyWhenFull == [][Stores /\ Evicted # {} => CacheFull]_vars
EvictsOnlyForNewKey == [][Stores /\ Evicted # {} => KeyIsNew]_vars
EvictsLeastRecentlyUsed == [][Stores => Evicted \subseteq LeastRecentlyUsed]_vars
\* what the cache does: the entry inserted first goes
EvictsFirstInserted == [][Stores => Evicted \subseteq FirstInserted]_vars
\* a store into a full cache always evicts
FullStoreEvicts == [][Stores /\ CacheFull /\ KeyIsNew => Evicted # {}]_vars
\* reachability: no store ever evicts
NeverEvicts == [][Stores => Evicted = {}]_vars

----------------------------------------------------------------------------
(* The cache after an invalidation                                         *)

\* no operation is in flight (every invalidateAclCache has returned) and no
\* evaluation is
Quiescent ==
    /\ OpIdle
    /\ \A e \in EvalSlots : evals[e].pc \in {"idle", "done"}

\* the cached entry of the pair is what the tables hold now
CacheIsCurrent(keyName, remotePubkey) ==
    LET cached == CacheGet(aclCache, keyName, remotePubkey)
    IN \A ku \in KeyUserOf(keyName, remotePubkey) :
            /\ cached.keyUser.revokedAt = ku.revokedAt
            /\ cached.keyUser.trustLevel = ku.trustLevel
            /\ cached.hasExplicitDeny = (ExplicitDenyRows(ku.id) # {})

\* C35: an evaluation that read the KeyUser before a permission change and
\* finishes after the change's cache invalidation does not put the old data
\* back: once the invalidation has returned and the evaluations in flight
\* have finished, the cache holds no entry of the pair whose revoked-at,
\* trust level or explicit-deny flag differs from the database.
C35_NoStaleReinsert ==
    Quiescent =>
        \A k \in Keys, p \in Pubkeys :
            CacheHas(aclCache, k, p) => CacheIsCurrent(k, p)

\* an evaluation is past its reads and has not cached yet
EvalHoldsRead(e) == evals[e].pc \in {"findKeyUser", "findDeny"}

\* the step ends an operation with its invalidation while an evaluation
\* holds what it read before
InvalidatedUnderRead ==
    /\ ~OpIdle /\ op'.fn = "idle"
    /\ \E e \in EvalSlots : EvalHoldsRead(e)

\* the evaluations and operations of SpecTrust without such an overlap: the
\* cache is current whenever nothing is in flight
SpecTrustNoOverlap == InitTrust /\ [][NextTrust /\ ~InvalidatedUnderRead]_vars

----------------------------------------------------------------------------
(* Unsubscribing from the manager                                          *)

\* unsubscribe(id) was called (by a client, the function subscribe returned,
\* or the stop() of a backend that uses the manager) and subscribe(id) was
\* not called since
Unsubscribed(id) ==
    /\ id \notin registered
    /\ \A k \in Keys : id = SubscriptionId(k) => backends[k].managed

LiveInPool(id) == \E ps \in poolSubs : ps.id = id

\* C36: once unsubscribe(id) has been called the id is neither managed nor
\* live in the pool, and it stays so: a restart whose pause the call falls
\* into does not re-create the subscription.
C36_UnsubscribedStaysClosed ==
    \A id \in SubIds : Unsubscribed(id) => id \notin Managed /\ ~LiveInPool(id)

\* the step unsubscribes while a restart is in its pause
UnsubscribesInPause == restart.pc = "pause" /\ ~(registered \subseteq registered')

\* the step unsubscribes: when it is over the id is neither managed nor live
UnsubscribeCloses ==
    \A id \in registered \ registered' : id \notin Managed' /\ ~LiveInPool(id)'

UnsubscribeClosesAtOnce == [][UnsubscribeCloses]_vars

\* the steps of SpecActivation with nothing but the restart's own resumption
\* during its pause
SpecActivationNoPause ==
    InitActivation /\ [][NextActivation /\ (restart.pc = "pause" => restart'.pc = "idle")]_vars

----------------------------------------------------------------------------
(* The manager's hold on the pool                                          *)

OpenFor(id) == {ps \in poolSubs : ps.id = id}

\* the manager holds the close function of the pool subscription
HeldByManager(ps) == subscriptions[ps.id] # NoSub /\ subscriptions[ps.id].cleanup = ps.h

\* C37: in every reachable state there is at most one open pool subscription
\* per subscription id, and the manager holds its close function: no
\* interleaving of subscribe, unsubscribe, restartAll, scheduled restarts and
\* stop leaves an open pool subscription whose close function is lost.
C37_OneSubscriptionPerId ==
    \A id \in SubIds :
        /\ Cardinality(OpenFor(id)) <= 1
        /\ \A ps \in OpenFor(id) : HeldByManager(ps)

\* the steps of SpecManager with nothing but the restart's own resumption
\* during its pause
SpecManagerNoPause ==
    InitManager /\ [][NextManager /\ (restart.pc = "pause" => restart'.pc = "idle")]_vars

----------------------------------------------------------------------------
(* One response per request: what handleEvent publishes for a request id   *)

\* the success response of the request was handed to sendResponse
SentResult(h) ==
    /\ Len(handling[h].sent) >= 1
    /\ handling[h].sent[1].result # "error"

\* an error response for the request went out
ErrorPublished(h) ==
    \E i \in PublishedFor(h) : published[i].result = "error"

\* at most one response event went out for the request id
PublishedAtMostOnce ==
    \A h \in Handlers : Cardinality(PublishedFor(h)) <= 1

\* a request whose success response was sent gets no error response
NoErrorAfterResult ==
    \A h \in Handlers : SentResult(h) => ~ErrorPublished(h)

\* C38: at most one response event is published for a request id, and a
\* failure while publishing the success response causes no error response
\* for the same request
C38_OneResponsePerRequest ==
    /\ PublishedAtMostOnce
    /\ NoErrorAfterResult

\* the success response failed to publish and an error went out in its place
ErrorInPlaceOfResult ==
    \E h \in Handlers :
        /\ SentResult(h)
        /\ handling[h].publishFailed
        /\ handling[h].pc = "done"
        /\ ErrorPublished(h)

\* reachability probe: never is an error published in place of a result
NeverErrorInPlaceOfResult == ~ErrorInPlaceOfResult

----------------------------------------------------------------------------
(* The batch specification: batch approvals whose awaited calls may reject *)

NextBatch ==
    \/ \E id \in RequestIds, k \in Keys, p \in Pubkeys, m \in ParkedMethods :
            CreateRequest(id, k, p, m, ParkedParams(m)) /\ UNCHANGED extVars
    \/ CleanupExpired /\ UNCHANGED extVars
    \/ \E b \in BatchSlots, ids \in SeqsUpTo(RequestIds, MaxBatchIds),
          t \in BatchTrustLevels, always \in BOOLEAN :
            BatchStart(b, ids, t, always) /\ UNCHANGED extVars
    \/ \E b \in BatchSlots : BatchFind(b) /\ UNCHANGED extVars
    \/ \E b \in BatchSlots : BatchUpdate(b) /\ UNCHANGED extVars
    \/ \E b \in BatchSlots : BatchGrant(b) /\ UNCHANGED extVars
    \/ \E b \in BatchSlots : BatchLog(b) /\ UNCHANGED extVars
    \/ \E b \in BatchSlots : BatchCatch(b) /\ UNCHANGED extVars
    \/ StepGrantPermissionsByTrustLevel /\ UNCHANGED nonAclVars
    \/ StepPermitAllRequests /\ UNCHANGED nonAclVars
    \/ Advance(REQUEST_EXPIRY_MS) /\ UNCHANGED nonAclVars

SpecBatch == InitRequests /\ [][NextBatch]_vars

\* the call has set allowed = true for the id it is at
ApprovedByCall(b) ==
    \/ batches[b].pc = "update" /\ batches[b].updated
    \/ batches[b].pc \in {"grant", "log"}

\* this step pushes a failure entry for the id the call is at
PushesFailure(b) ==
    /\ Len(batches'[b].results) = Len(batches[b].results) + 1
    /\ ~batches'[b].results[Len(batches'[b].results)].success

\* this step pushes a success entry for the id the call is at
PushesSuccess(b) ==
    /\ Len(batches'[b].results) = Len(batches[b].results) + 1
    /\ batches'[b].results[Len(batches'[b].results)].success

\* this step is the call's update of the request row
UpdatesRow(b) ==
    /\ batches[b].pc = "find"
    /\ batches'[b].pc = "update"
    /\ batches'[b].updated

\* a call that approved the request reports no failure for it
FailureOnlyBeforeApproval ==
    \A b \in BatchSlots : PushesFailure(b) => ~ApprovedByCall(b)

\* a success is reported by a call whose grant has completed
SuccessAfterGrant ==
    \A b \in BatchSlots :
        PushesSuccess(b) => batches[b].pc = "log" /\ OpReturned(batches[b].ticket)

\* the update of a call changes an undecided request
UpdateChangesUndecided ==
    \A b \in BatchSlots :
        UpdatesRow(b) => requests[batches[b].ids[batches[b].i]].allowed = "null"

\* the reply has one entry per id, counted once in the summary
SummaryAddsUp ==
    \A b \in BatchSlots :
        (batches[b].pc = "done" /\ batches[b].status = 200) =>
            /\ Len(batches[b].results) = Len(batches[b].ids)
            /\ batches[b].summary.approved + batches[b].summary.failed
                    = Len(batches[b].ids)
            /\ \A i \in DOMAIN batches[b].ids :
                    batches[b].results[i].id = batches[b].ids[i]

\* C39: the result entry of a batch approval for an id reports success iff
\* the call changed the request from undecided to approved and completed its
\* grant: no request is left approved with a failure entry, and
\* summary.approved + summary.failed is the number of ids
C39_BatchEntryMatchesOutcome ==
    /\ [][FailureOnlyBeforeApproval /\ SuccessAfterGrant
            /\ UpdateChangesUndecided]_vars
    /\ []SummaryAddsUp

FailuresBeforeApproval == [][FailureOnlyBeforeApproval]_vars

SuccessesAfterGrant == [][SuccessAfterGrant]_vars

UpdatesChangeUndecided == [][UpdateChangesUndecided]_vars

\* the batch approval specification without concurrent calls on one row
SpecBatchAlone ==
    InitRequests /\ [][NextBatch /\ UpdateChangesUndecided]_vars

\* a request approved by a finished call whose entry reports the failure
ApprovedWithFailure ==
    \E b \in BatchSlots, id \in RequestIds :
        /\ batches[b].pc = "done"
        /\ FailuresOf(b, id, "database error") # {}
        /\ requests[id].state = "present" /\ requests[id].allowed = "true"
        /\ ApprovedEvents(id) # {}

\* reachability probe: never is a request left approved with a failure entry
NeverApprovedWithFailure == ~ApprovedWithFailure

----------------------------------------------------------------------------
(* The probes of pingRelays *)

\* the probe specification: the manager's health checks, with the timeout
\* of a pending probe firing (setTimeout, subscription-manager.ts 265-268)
NextPing ==
    \/ ManagerStart /\ UNCHANGED managerFrame
    \/ ManagerStop /\ UNCHANGED managerFrame
    \/ \E id \in OtherIds, f \in OtherFilters :
            Subscribe(id, f, "onEvent") /\ UNCHANGED managerFrame
    \/ \E id \in OtherIds : Unsubscribe(id) /\ UNCHANGED managerFrame
    \/ \E passed \in BeatGaps : RunHeartbeat(passed) /\ UNCHANGED managerFrame
    \/ InitialHealthCheck /\ UNCHANGED managerFrame
    \/ \E healthy \in BOOLEAN : PingReturn(healthy) /\ UNCHANGED managerFrame
    \/ RestartTimerFires /\ UNCHANGED managerFrame
    \/ RestartResume /\ UNCHANGED managerFrame

SpecPing ==
    /\ InitManager
    /\ [][NextPing]_vars
    /\ WF_vars(PingReturn(FALSE) /\ UNCHANGED managerFrame)

\* the throwaway subscriptions of probes open in the pool
PingSubs == {ps \in poolSubs : ps.id = "ping"}

\* a probe is awaited
ProbePending == manager.ping # 0

\* a pending probe has its timeout armed, its subscription open, no outcome
PendingProbeArmed ==
    ProbePending =>
        /\ manager.pingTimer
        /\ manager.pingResults = <<>>
        /\ {ps.h : ps \in PingSubs} = {manager.ping}

\* with no probe pending no probe subscription is open and no timeout armed
FinishedProbeReleased ==
    ~ProbePending =>
        /\ PingSubs = {}
        /\ ~manager.pingTimer
        /\ Len(manager.pingResults) <= 1

\* a probe resolves once, with true on EOSE and with false on its timeout
ProbeResolvesOnce ==
    /\ PingReturn(TRUE) => manager'.pingResults = <<TRUE>>
    /\ PingReturn(FALSE) => manager'.pingResults = <<FALSE>>
    /\ (ProbePending /\ manager'.ping = 0) => Len(manager'.pingResults) = 1

C40_WitnessEose ==
    /\ manager.pingResults = <<TRUE>>
    /\ ~ProbePending
    /\ PingSubs = {}
============================================================================
